---- MODULE Spec2Model ----
(***************************************************************************)
(* A model of the core of the Zinc toolchain: the process-wide type item   *)
(* index of the semantic analyzer, the evaluation-stack instructions of    *)
(* the virtual machines, the conditional instructions, the semantic        *)
(* attribute conversion, the `use` and `contract` statement parsers and    *)
(* the constant arrays of the semantic analyzer.                           *)
(*                                                                         *)
(* Each part of the program has its own variables and its own              *)
(* specification; a specification leaves the variables of the other parts  *)
(* at their initial value.                                                 *)
(***************************************************************************)
EXTENDS Integers, Sequences, FiniteSets, TLC

VARIABLES
    \* ---- semantic/scope/item/type/index.rs ----
    inner,      \* Index.inner: the map type id -> title
    writer,     \* the thread holding the write lock of Index.inner, or NoThread
    ipc,        \* per thread: its position inside Index::next
    type_id,    \* per thread: the local `type_id` of Index::next
    title,      \* per thread: the `title` argument of the call in progress
    returned,   \* the ids returned by Index::next so far, in order of return
    \* ---- the evaluation-stack instructions (zrustm, zinc) ----
    program,    \* the instructions given to the virtual machine
    pc,         \* the index of the next instruction of `program`
    stack,      \* the evaluation stack, its top last
    status,     \* "ok", or the RuntimeError that stopped the machine
    before,     \* the evaluation stack before the last executed instruction
    data,       \* the data stack: the values stored at its addresses
    \* ---- the conditional instructions (zinc-vm) ----
    cprogram,   \* the bytecode given to the virtual machine
    cpc,        \* the index of the next instruction of `cprogram`
    cvm,        \* the machine: evaluation stack, data stack, branches, status
    \* ---- semantic/analyzer/attribute/mod.rs ----
    attribute,  \* the syntax attribute given to Attribute::try_from
    converted,  \* the result of the conversion, or Pending
    \* ---- syntax/parser/statement/use.rs and contract.rs ----
    kind,       \* the parser that is called: "use" or "contract"
    input,      \* the lexemes of the token stream, up to the end of the input
    parser,     \* the Parser inside `parse`: its fields, `initial`, the stream
                \* position, the result, and what became of each token
    \* ---- semantic/element/constant/array ----
    arrayLiteral, \* the elements of the array literal
    arrayAccess,  \* the index or the range the literal is accessed with, if any
    arrayConstant, \* the constant array built so far
    arrayResult,  \* the result of the evaluation, or Pending
    \* ---- zrust-bytecode/src/instructions/cast.rs ----
    cast,         \* the cast to emit, its instruction, its encoding and the
                  \* decoding of the encoding
    \* ---- zargo/src/arguments/command/build.rs, zargo/src/command/build.rs ----
    command,      \* the build command: its options, the manifest, the project
                  \* directory and the calls that fail
    build         \* the run of the command: the calls made, the private key
                  \* file and the result, or Pending

indexVars == <<inner, writer, ipc, type_id, title, returned>>
vmVars == <<program, pc, stack, status, before, data>>
condVars == <<cprogram, cpc, cvm>>
attrVars == <<attribute, converted>>
parserVars == <<kind, input, parser>>
arrayVars == <<arrayLiteral, arrayAccess, arrayConstant, arrayResult>>
castVars == <<cast>>
buildVars == <<command, build>>

vars == <<indexVars, vmVars, condVars, attrVars, parserVars, arrayVars, castVars, buildVars>>

\* What a step of one part leaves alone: the variables of the other parts.
IndexOnly == UNCHANGED <<vmVars, condVars, attrVars, parserVars, arrayVars, castVars, buildVars>>
VmOnly == UNCHANGED <<indexVars, condVars, attrVars, parserVars, arrayVars, castVars, buildVars>>
CondOnly == UNCHANGED <<indexVars, vmVars, attrVars, parserVars, arrayVars, castVars, buildVars>>
AttrOnly == UNCHANGED <<indexVars, vmVars, condVars, parserVars, arrayVars, castVars, buildVars>>
ParserOnly == UNCHANGED <<indexVars, vmVars, condVars, attrVars, arrayVars, castVars, buildVars>>
ArrayOnly == UNCHANGED <<indexVars, vmVars, condVars, attrVars, parserVars, castVars, buildVars>>
CastOnly == UNCHANGED <<indexVars, vmVars, condVars, attrVars, parserVars, arrayVars, buildVars>>
BuildOnly == UNCHANGED <<indexVars, vmVars, condVars, attrVars, parserVars, arrayVars, castVars>>

----------------------------------------------------------------------------
(***************************************************************************)
(* Bounds of the model.                                                    *)
(***************************************************************************)
\* The number of Index::next calls started in a behaviour.
MaxCalls == 3
\* The depth of the evaluation stacks an instruction is tried on.
MaxStack == 4
\* The number of instructions of each side of a generated conditional.
MaxSide == 2
\* The length of the generated sequences of Push, If, Else and EndIf.
MaxBranchProgram == 4
\* The number of identifiers of the path of a `use` statement.
MaxSegments == 2
\* The number of fields and of statements of a contract.
MaxFields == 2
MaxStatements == 2
\* The number of elements of an array literal.
MaxArray == 5
\* The number of elements a nested attribute list has beyond the expected ones.
MaxExtra == 1
\* The number of addresses of the data stack LoadPushArray is tried on.
MaxData == 3

----------------------------------------------------------------------------
(***************************************************************************)
(* The type item index.                                                    *)
(***************************************************************************)
NoThread == 0
Threads == {1, 2}
Titles == {"variant A", "variant B", "structure S"}

\* BuiltInTypeId: the discriminants of the built-in types seeded by Index::new.
StdCryptoEccPoint == 0
StdCryptoSchnorrSignature == 1
StdAssetsToken == 2

\* HashMap::insert: the key is added, or its title overwritten.
Insert(index, id, t) ==
    [k \in (DOMAIN index) \cup {id} |-> IF k = id THEN t ELSE index[k]]

\* HashMap::len
MapLen(index) == Cardinality(DOMAIN index)

\* A next_with_id that forgets to record the id.
next_with_id_forgets(index, t, id) == index

\* Index::next_with_id: the map after `index.insert(type_id, title)`.
next_with_id(index, t, id) == Insert(index, id, t)

\* Index::new: an empty map seeded with the three built-in types.
IndexNew ==
    LET e == [k \in {} |-> ""]
        a == next_with_id(e, "structure std::crypto::ecc::Point", StdCryptoEccPoint)
        b == next_with_id(a, "structure std::crypto::schnorr::Signature",
                          StdCryptoSchnorrSignature)
    IN  next_with_id(b, "structure std::assets::Token", StdAssetsToken)

\* The number of calls of Index::next started so far.
Started == Len(returned) + Cardinality({t \in Threads : ipc[t] # "idle"})

\* A thread calls Index::next(title), e.g. from Variant::new.
NextCall(t, ti) ==
    /\ ipc[t] = "idle"
    /\ Started < MaxCalls
    /\ ipc' = [ipc EXCEPT ![t] = "next_write"]
    /\ title' = [title EXCEPT ![t] = ti]
    /\ UNCHANGED <<inner, writer, type_id, returned>>
    /\ IndexOnly

\* Index::next, `self.inner.write()`: the write lock is acquired.
NextWrite(t) ==
    /\ ipc[t] = "next_write"
    /\ writer = NoThread
    /\ writer' = t
    /\ ipc' = [ipc EXCEPT ![t] = "next_len"]
    /\ UNCHANGED <<inner, type_id, title, returned>>
    /\ IndexOnly

\* A next that keeps the guard of its first `self.inner.write()` while it
\* calls next_with_id.
NextLenKeepsGuard(t) ==
    /\ ipc[t] = "next_len"
    /\ writer = t
    /\ type_id' = [type_id EXCEPT ![t] = MapLen(inner)]
    /\ ipc' = [ipc EXCEPT ![t] = "with_id_write"]
    /\ UNCHANGED <<inner, writer, title, returned>>
    /\ IndexOnly

\* Index::next, `.len()`: the length is read and the temporary guard is
\* dropped at the end of the `let type_id = ...;` statement.
NextLen(t) ==
    /\ ipc[t] = "next_len"
    /\ writer = t
    /\ type_id' = [type_id EXCEPT ![t] = MapLen(inner)]
    /\ writer' = NoThread
    /\ ipc' = [ipc EXCEPT ![t] = "with_id_write"]
    /\ UNCHANGED <<inner, title, returned>>
    /\ IndexOnly

\* Index::next_with_id, `self.inner.write()`: the write lock is acquired again.
WithIdWrite(t) ==
    /\ ipc[t] = "with_id_write"
    /\ writer = NoThread
    /\ writer' = t
    /\ ipc' = [ipc EXCEPT ![t] = "with_id_insert"]
    /\ UNCHANGED <<inner, type_id, title, returned>>
    /\ IndexOnly

\* Index::next_with_id, `index.insert(type_id, title); type_id`: the id is
\* recorded, the guard dropped and the id returned to the caller of next.
WithIdInsert(t) ==
    /\ ipc[t] = "with_id_insert"
    /\ writer = t
    /\ inner' = next_with_id(inner, title[t], type_id[t])
    /\ writer' = NoThread
    /\ returned' = Append(returned, type_id[t])
    /\ ipc' = [ipc EXCEPT ![t] = "idle"]
    /\ UNCHANGED <<type_id, title>>
    /\ IndexOnly

IndexInit ==
    /\ inner = IndexNew
    /\ writer = NoThread
    /\ ipc = [t \in Threads |-> "idle"]
    /\ type_id = [t \in Threads |-> 0]
    /\ title = [t \in Threads |-> ""]
    /\ returned = <<>>

\* The steps of one thread inside Index::next.
IndexStep(t) ==
    \/ \E ti \in Titles : NextCall(t, ti)
    \/ NextWrite(t)
    \/ NextLen(t)
    \/ WithIdWrite(t)
    \/ WithIdInsert(t)

----------------------------------------------------------------------------
(***************************************************************************)
(* The evaluation stack and the instructions Pop, Rem, Slice, Gt and        *)
(* LoadPushArray.                                                          *)
(***************************************************************************)
\* The values of the stacks the instructions are tried on.
Values == {-3, -2, 0, 2, 3}

RECURSIVE SeqsUpTo(_, _)
\* The sequences over S of length at most n.
SeqsUpTo(S, n) ==
    IF n = 0 THEN {<<>>}
    ELSE LET shorter == SeqsUpTo(S, n - 1)
         IN  shorter \cup {Append(q, x) : q \in {r \in shorter : Len(r) = n - 1}, x \in S}

RECURSIVE Reverse(_)
\* Iterator::rev
Reverse(q) == IF q = <<>> THEN <<>> ELSE Append(Reverse(Tail(q)), Head(q))

Abs(x) == IF x < 0 THEN -x ELSE x

\* The instructions.
Push(v) == [op |-> "Push", value |-> v]
Pop(n) == [op |-> "Pop", count |-> n]
Rem == [op |-> "Rem"]
Slice(l, sl, so) == [op |-> "Slice", len |-> l, slice_len |-> sl, slice_offset |-> so]
Gt == [op |-> "Gt"]
LoadPushArray(a, l) == [op |-> "LoadPushArray", address |-> a, len |-> l]

\* The data stack that holds no value.
NoData == [a \in {} |-> 0]

\* A machine: its evaluation stack, its data stack and "ok" or the error
\* that stopped it.
Machine(st) == [stack |-> st, data |-> data, status |-> "ok"]
Fail(vm, error) == [vm EXCEPT !.status = error]

\* VirtualMachine::push
push(vm, v) ==
    IF vm.status # "ok" THEN vm ELSE [vm EXCEPT !.stack = Append(@, v)]

\* VirtualMachine::pop: the machine after the pop; an empty stack is an error.
pop(vm) ==
    IF vm.status # "ok" THEN vm
    ELSE IF vm.stack = <<>> THEN Fail(vm, "StackUnderflow")
    ELSE [vm EXCEPT !.stack = SubSeq(@, 1, Len(@) - 1)]

\* The value VirtualMachine::pop returns (0 when it fails: never used then).
top(vm) == IF vm.status = "ok" /\ vm.stack # <<>> THEN vm.stack[Len(vm.stack)] ELSE 0

\* ElementOperator::div_rem: <<quotient, remainder>> with a remainder that is
\* never negative, as test_rem expects of it.
div_rem(left, right) ==
    IF right > 0 THEN <<left \div right, left % right>>
    ELSE <<-(left \div (-right)), left % (-right)>>

RECURSIVE PopTimes(_, _)
\* `for _ in 0..n { vm.pop()?; }`
PopTimes(vm, n) ==
    IF n = 0 \/ vm.status # "ok" THEN vm ELSE PopTimes(pop(vm), n - 1)

RECURSIVE PopInto(_, _, _)
\* `for _ in 0..n { let value = vm.pop()?; slice.push(value); }`: the machine
\* and the vector afterwards.
PopInto(vm, slice, n) ==
    IF n = 0 \/ vm.status # "ok" THEN <<vm, slice>>
    ELSE LET after == pop(vm)
         IN  IF after.status # "ok" THEN <<after, slice>>
             ELSE PopInto(after, Append(slice, top(vm)), n - 1)

RECURSIVE PushAll(_, _)
\* `for value in values { vm.push(value)?; }`
PushAll(vm, values) ==
    IF values = <<>> \/ vm.status # "ok" THEN vm
    ELSE PushAll(push(vm, Head(values)), Tail(values))

\* Push::execute
ExecPush(vm, value) == push(vm, value)

\* A Pop that iterates over the inclusive range 0..=count.
ExecPopInclusive(vm, count) == PopTimes(vm, count + 1)

\* A Pop that pops the values there are when there are fewer than count.
ExecPopSaturating(vm, count) ==
    PopTimes(vm, IF count > Len(vm.stack) THEN Len(vm.stack) ELSE count)

\* Pop::execute
ExecPop(vm, count) == PopTimes(vm, count)

\* A Rem that pushes the quotient.
ExecRemPushesDiv(vm) ==
    LET left == top(vm)
        vm1 == pop(vm)
        right == top(vm1)
        vm2 == pop(vm1)
    IN  IF vm2.status # "ok" THEN vm2
        ELSE IF right = 0 THEN Fail(vm2, "DivisionByZero")
        ELSE push(vm2, div_rem(left, right)[1])

\* A Rem that takes the divisor from the top of the stack.
ExecRemSwapped(vm) ==
    LET right == top(vm)
        vm1 == pop(vm)
        left == top(vm1)
        vm2 == pop(vm1)
    IN  IF vm2.status # "ok" THEN vm2
        ELSE IF right = 0 THEN Fail(vm2, "DivisionByZero")
        ELSE push(vm2, div_rem(left, right)[2])

\* Rem::execute
ExecRem(vm) ==
    LET left == top(vm)
        vm1 == pop(vm)
        right == top(vm1)
        vm2 == pop(vm1)
    IN  IF vm2.status # "ok" THEN vm2
        ELSE IF right = 0 THEN Fail(vm2, "DivisionByZero")
        ELSE push(vm2, div_rem(left, right)[2])

\* A Slice that pushes the values back in the order it popped them.
ExecSliceNoRev(vm, len, slice_len, slice_offset) ==
    IF len < slice_len + slice_offset THEN Fail(vm, "IndexOutOfBounds")
    ELSE LET offset == len - (slice_len + slice_offset)
             vm1 == PopTimes(vm, offset)
             taken == PopInto(vm1, <<>>, slice_len)
             vm3 == PopTimes(taken[1], slice_offset)
         IN  IF vm3.status # "ok" THEN vm3
             ELSE PushAll(vm3, taken[2])

\* A Slice that pops a value before it finds the slice out of bounds.
ExecSliceChecksLate(vm, len, slice_len, slice_offset) ==
    IF len < slice_len + slice_offset THEN Fail(pop(vm), "IndexOutOfBounds")
    ELSE LET offset == len - (slice_len + slice_offset)
             vm1 == PopTimes(vm, offset)
             taken == PopInto(vm1, <<>>, slice_len)
             vm3 == PopTimes(taken[1], slice_offset)
         IN  IF vm3.status # "ok" THEN vm3
             ELSE PushAll(vm3, Reverse(taken[2]))

\* A Slice that leaves the values beneath the slice on the stack.
ExecSliceKeepsOffset(vm, len, slice_len, slice_offset) ==
    IF len < slice_len + slice_offset THEN Fail(vm, "IndexOutOfBounds")
    ELSE LET offset == len - (slice_len + slice_offset)
             vm1 == PopTimes(vm, offset)
             taken == PopInto(vm1, <<>>, slice_len)
             vm3 == taken[1]
         IN  IF vm3.status # "ok" THEN vm3
             ELSE PushAll(vm3, Reverse(taken[2]))

\* Slice::execute
ExecSlice(vm, len, slice_len, slice_offset) ==
    IF len < slice_len + slice_offset THEN Fail(vm, "IndexOutOfBounds")
    ELSE LET offset == len - (slice_len + slice_offset)
             vm1 == PopTimes(vm, offset)
             taken == PopInto(vm1, <<>>, slice_len)
             vm3 == PopTimes(taken[1], slice_offset)
         IN  IF vm3.status # "ok" THEN vm3
             ELSE PushAll(vm3, Reverse(taken[2]))

\* ElementOperator::gt: 1 for left > right and 0 otherwise, as test_gt
\* expects of it.
gt(left, right) == IF left > right THEN 1 ELSE 0

\* A Gt that takes the left operand from beneath the top.
ExecGtSwapped(vm) ==
    LET right == top(vm)
        vm1 == pop(vm)
        left == top(vm1)
        vm2 == pop(vm1)
    IN  IF vm2.status # "ok" THEN vm2
        ELSE push(vm2, gt(left, right))

\* Gt::execute
ExecGt(vm) ==
    LET left == top(vm)
        vm1 == pop(vm)
        right == top(vm1)
        vm2 == pop(vm1)
    IN  IF vm2.status # "ok" THEN vm2
        ELSE push(vm2, gt(left, right))

\* VirtualMachine::load: the value stored at an address of the data stack;
\* an address that holds no value is an error.
load(vm, address) ==
    IF address \in DOMAIN vm.data THEN [ok |-> TRUE, value |-> vm.data[address]]
    ELSE [ok |-> FALSE, error |-> "IndexOutOfBounds"]

RECURSIVE LoadPushFrom(_, _, _, _)
\* `for i in i..len { let value = vm.load(address + len - i - 1)?;
\* vm.push(value)?; }`
LoadPushFrom(vm, address, len, i) ==
    IF i >= len \/ vm.status # "ok" THEN vm
    ELSE LET loaded == load(vm, address + len - i - 1)
         IN  IF ~loaded.ok THEN Fail(vm, loaded.error)
             ELSE LoadPushFrom(push(vm, loaded.value), address, len, i + 1)

RECURSIVE LoadPushUpwards(_, _, _, _)
\* A loop that reads the addresses from `address` upwards.
LoadPushUpwards(vm, address, len, i) ==
    IF i >= len \/ vm.status # "ok" THEN vm
    ELSE LET loaded == load(vm, address + i)
         IN  IF ~loaded.ok THEN Fail(vm, loaded.error)
             ELSE LoadPushUpwards(push(vm, loaded.value), address, len, i + 1)

\* A LoadPushArray that reads the addresses from `address` upwards.
ExecLoadPushArrayUpwards(vm, address, len) == LoadPushUpwards(vm, address, len, 0)

\* LoadPushArray::execute
ExecLoadPushArray(vm, address, len) == LoadPushFrom(vm, address, len, 0)

\* test_gt
TestGt == <<Push(1), Push(2), Gt, Push(2), Push(2), Gt, Push(2), Push(1), Gt>>

\* test_rem
TestRem ==
    <<Push(4), Push(9), Rem, Push(-4), Push(9), Rem,
      Push(4), Push(-9), Rem, Push(-4), Push(-9), Rem>>

\* test_pop
TestPop == <<Push(1), Push(2), Pop(1), Push(3), Push(4), Push(5), Pop(2)>>

\* test_slice
TestSlice == <<Push(1), Push(2), Push(3), Push(4), Push(5), Push(6), Slice(5, 2, 1)>>

\* The programs of the tests: they start on an empty stack.
TestPrograms == {TestRem, TestPop, TestSlice, TestGt}

\* The instructions tried on every stack of depth at most MaxStack.
Instructions ==
    {Push(v) : v \in Values} \cup {Pop(n) : n \in 0..(MaxStack + 1)} \cup {Rem, Gt}
    \cup {Slice(l, sl, so) : l \in 0..(MaxStack + 1), sl \in 0..MaxStack, so \in 0..MaxStack}

\* The data stacks: values at the addresses 0 .. n - 1.
DataValues == {5, 7, 9}
DataStacks == UNION {[0 .. n - 1 -> DataValues] : n \in 0 .. MaxData}

\* The data stack of the machines that are given no LoadPushArray.
SomeData == [a \in 0 .. 1 |-> IF a = 0 THEN 5 ELSE 7]

\* A machine is given one of the test programs on an empty stack, or one
\* instruction on any stack, or a Pop and an instruction after it, or a
\* LoadPushArray on any data stack.
VmInit ==
    /\ \/ program \in TestPrograms /\ stack = <<>> /\ data = NoData
       \/ /\ program \in {<<i>> : i \in Instructions}
          /\ stack \in SeqsUpTo(Values, MaxStack)
          /\ data = SomeData
       \/ /\ program \in {<<Pop(n), Push(2)>> : n \in 0..(MaxStack + 1)}
          /\ stack \in SeqsUpTo(Values, MaxStack)
          /\ data = SomeData
       \/ /\ program \in {<<LoadPushArray(a, l)>> : a \in 0..MaxData, l \in 0..(MaxData + 1)}
          /\ stack \in SeqsUpTo(Values, 1)
          /\ data \in DataStacks
    /\ pc = 1
    /\ status = "ok"
    /\ before = stack

\* No machine runs.
VmIdle ==
    /\ program = <<>>
    /\ pc = 1
    /\ stack = <<>>
    /\ status = "ok"
    /\ before = <<>>
    /\ data = NoData

\* The run loop: the instruction at pc is executed unless an error stopped
\* the machine; `after` is the machine the instruction leaves.
Executes(op) == status = "ok" /\ pc <= Len(program) /\ program[pc].op = op

Executed(after) ==
    /\ before' = stack
    /\ stack' = after.stack
    /\ data' = after.data
    /\ status' = after.status
    /\ pc' = pc + 1
    /\ UNCHANGED program
    /\ VmOnly

StepPush == Executes("Push") /\ Executed(ExecPush(Machine(stack), program[pc].value))

StepPop == Executes("Pop") /\ Executed(ExecPop(Machine(stack), program[pc].count))

StepRem == Executes("Rem") /\ Executed(ExecRem(Machine(stack)))

StepSlice ==
    /\ Executes("Slice")
    /\ Executed(ExecSlice(Machine(stack), program[pc].len, program[pc].slice_len,
                          program[pc].slice_offset))

StepGt == Executes("Gt") /\ Executed(ExecGt(Machine(stack)))

StepLoadPushArray ==
    /\ Executes("LoadPushArray")
    /\ Executed(ExecLoadPushArray(Machine(stack), program[pc].address, program[pc].len))

----------------------------------------------------------------------------
(***************************************************************************)
(* The conditional instructions If, Else and EndIf, and the machine state  *)
(* they act on: the evaluation stack, the data stack and the branches.     *)
(***************************************************************************)
Load(a) == [op |-> "Load", address |-> a]      \* Load::new(address, 1)
Store(a) == [op |-> "Store", address |-> a]    \* Store::new(address, 1)
Add == [op |-> "Add"]
Sub == [op |-> "Sub"]
If == [op |-> "If"]
Else == [op |-> "Else"]
EndIf == [op |-> "EndIf"]

\* The range of IntegerType::I8.
I8Min == -128
I8Max == 127

NoWrites == [a \in {} |-> 0]

\* The machine before its first instruction.
CondMachine ==
    [evaluation |-> <<>>, data |-> NoWrites, branches |-> <<>>, status |-> "ok"]

\* The frame a branch opens: its condition, the side being executed, and the
\* values pushed and the addresses written on each side.
Branch(c) ==
    [cond |-> c, side |-> "Then",
     then_stack |-> <<>>, else_stack |-> <<>>,
     then_writes |-> NoWrites, else_writes |-> NoWrites]

Depth(vm) == Len(vm.branches)

\* The evaluation stack the instructions act on: the one of the side being
\* executed of the innermost branch, or the one of the function.
CurrentStack(vm) ==
    IF Depth(vm) = 0 THEN vm.evaluation
    ELSE LET f == vm.branches[Depth(vm)]
         IN  IF f.side = "Then" THEN f.then_stack ELSE f.else_stack

WithStack(vm, st) ==
    IF Depth(vm) = 0 THEN [vm EXCEPT !.evaluation = st]
    ELSE IF vm.branches[Depth(vm)].side = "Then"
         THEN [vm EXCEPT !.branches[Depth(vm)].then_stack = st]
         ELSE [vm EXCEPT !.branches[Depth(vm)].else_stack = st]

\* The writes of the side being executed of frame k.
SideWrites(vm, k) ==
    LET f == vm.branches[k]
    IN  IF f.side = "Then" THEN f.then_writes ELSE f.else_writes

RECURSIVE Lookup(_, _, _)
\* The value at an address as seen from frame k: the write of the nearest
\* enclosing side, or the data stack of the function; <<found, value>>.
Lookup(vm, k, a) ==
    IF k = 0 THEN (IF a \in DOMAIN vm.data THEN <<TRUE, vm.data[a]>> ELSE <<FALSE, 0>>)
    ELSE IF a \in DOMAIN SideWrites(vm, k) THEN <<TRUE, SideWrites(vm, k)[a]>>
    ELSE Lookup(vm, k - 1, a)

Written(w, a, v) == [x \in (DOMAIN w) \cup {a} |-> IF x = a THEN v ELSE w[x]]

\* A write to an address: recorded on the side being executed of the
\* innermost branch, or made to the data stack of the function.
Write(vm, a, v) ==
    IF Depth(vm) = 0 THEN [vm EXCEPT !.data = Written(@, a, v)]
    ELSE IF vm.branches[Depth(vm)].side = "Then"
         THEN [vm EXCEPT !.branches[Depth(vm)].then_writes = Written(@, a, v)]
         ELSE [vm EXCEPT !.branches[Depth(vm)].else_writes = Written(@, a, v)]

CondPush(vm, v) ==
    IF vm.status # "ok" THEN vm ELSE WithStack(vm, Append(CurrentStack(vm), v))

CondPop(vm) ==
    IF vm.status # "ok" THEN vm
    ELSE IF CurrentStack(vm) = <<>> THEN Fail(vm, "StackUnderflow")
    ELSE WithStack(vm, SubSeq(CurrentStack(vm), 1, Len(CurrentStack(vm)) - 1))

CondTop(vm) ==
    IF vm.status = "ok" /\ CurrentStack(vm) # <<>>
    THEN CurrentStack(vm)[Len(CurrentStack(vm))] ELSE 0

\* The result of an I8 operation: out of range is an overflow.
Checked(vm, v) ==
    IF vm.status # "ok" THEN vm
    ELSE IF v < I8Min \/ v > I8Max THEN Fail(vm, "Overflow")
    ELSE CondPush(vm, v)

\* A binary operator: the right operand is popped first.
Binary(vm, op) ==
    LET right == CondTop(vm)
        vm1 == CondPop(vm)
        left == CondTop(vm1)
        vm2 == CondPop(vm1)
    IN  IF vm2.status # "ok" THEN vm2
        ELSE CASE op = "Gt" -> CondPush(vm2, IF left > right THEN 1 ELSE 0)
               [] op = "Add" -> Checked(vm2, left + right)
               [] op = "Sub" -> Checked(vm2, left - right)

CondLoad(vm, a) ==
    LET found == Lookup(vm, Depth(vm), a)
    IN  IF found[1] THEN CondPush(vm, found[2]) ELSE Fail(vm, "IndexOutOfBounds")

CondStore(vm, a) ==
    LET v == CondTop(vm)
        vm1 == CondPop(vm)
    IN  IF vm1.status # "ok" THEN vm1 ELSE Write(vm1, a, v)

\* IVirtualMachine::branch_then: the condition is popped and a frame opened.
branch_then(vm) ==
    LET c == CondTop(vm)
        vm1 == CondPop(vm)
    IN  IF vm1.status # "ok" THEN vm1
        ELSE IF c \notin {0, 1} THEN Fail(vm1, "TypeMismatch")
        ELSE [vm1 EXCEPT !.branches = Append(@, Branch(c))]

\* IVirtualMachine::branch_else: the side of the innermost frame is flipped.
branch_else(vm) ==
    IF Depth(vm) = 0 THEN Fail(vm, "BranchMalformed")
    ELSE [vm EXCEPT !.branches[Depth(vm)].side = IF @ = "Then" THEN "Else" ELSE "Then"]

RECURSIVE WriteAll(_, _, _)
\* The writes w to the addresses of `todo`, made in the enclosing frame.
WriteAll(vm, w, todo) ==
    IF todo = {} THEN vm
    ELSE LET a == CHOOSE x \in todo : TRUE
         IN  WriteAll(Write(vm, a, w[a]), w, todo \ {a})

\* IVirtualMachine::branch_end: the frame is closed; the pushes and the writes
\* of the side the condition selects reach the enclosing frame.
branch_end(vm) ==
    IF Depth(vm) = 0 THEN Fail(vm, "BranchMalformed")
    ELSE LET f == vm.branches[Depth(vm)]
             outer == [vm EXCEPT !.branches = SubSeq(@, 1, Len(@) - 1)]
             pushes == IF f.cond = 1 THEN f.then_stack ELSE f.else_stack
             writes == IF f.cond = 1 THEN f.then_writes ELSE f.else_writes
         IN  IF Len(f.then_stack) # Len(f.else_stack) THEN Fail(vm, "BranchMalformed")
             ELSE WithStack(WriteAll(outer, writes, DOMAIN writes),
                            CurrentStack(outer) \o pushes)

\* An Else that opens a frame.
IfForElse(vm) == branch_then(vm)

\* An EndIf that flips the side.
ElseForEndIf(vm) == branch_else(vm)

\* An Else that closes the frame.
EndIfForElse(vm) == branch_end(vm)

\* <If as IExecutable>::execute
ExecIf(vm) == branch_then(vm)

\* <Else as IExecutable>::execute
ExecElse(vm) == branch_else(vm)

\* <EndIf as IExecutable>::execute
ExecEndIf(vm) == branch_end(vm)

\* One instruction of the bytecode.
CondExec(vm, i) ==
    CASE i.op = "Push" -> CondPush(vm, i.value)
      [] i.op = "Load" -> CondLoad(vm, i.address)
      [] i.op = "Store" -> CondStore(vm, i.address)
      [] i.op \in {"Gt", "Add", "Sub"} -> Binary(vm, i.op)
      [] i.op = "If" -> ExecIf(vm)
      [] i.op = "Else" -> ExecElse(vm)
      [] i.op = "EndIf" -> ExecEndIf(vm)

RECURSIVE Run(_, _)
\* The machine after a whole program, or at its first error.
Run(vm, prog) ==
    IF prog = <<>> \/ vm.status # "ok" THEN vm
    ELSE Run(CondExec(vm, Head(prog)), Tail(prog))

\* test_evaluation_stack, for the inputs a and b.
TestEvaluationStack(a, b) ==
    <<Push(a), Store(0), Push(b), Store(1), Load(1), Load(0), Gt, If,
      Load(0), Load(1), Else, Load(1), Load(0), EndIf>>

\* test_data_stack, for the input c.
TestDataStack(c) ==
    <<Push(0), Store(0), Push(c), If, Push(1), Load(0), Add, Store(0),
      Else, Load(0), Push(1), Sub, Store(0), EndIf, Load(0)>>

\* The inputs of test_evaluation_stack: the pairs over 5, 6, 7.
TestInputs == {5, 6, 7}

\* A conditional on two variables: `<cond>; If; A; Else; B; EndIf`.
Conditional(x, y, c, A, B) ==
    <<Push(x), Store(0), Push(y), Store(1), Push(c), If>> \o A \o <<Else>> \o B \o <<EndIf>>

\* The sides of the generated conditionals: they only load and push.
Pushers == {Load(0), Load(1), Push(9)}
Sides == SeqsUpTo(Pushers, MaxSide)

\* A conditional whose sides update the variable at address 0.
Update(x, c, A, B) ==
    <<Push(x), Store(0), Push(c), If>> \o A \o <<Else>> \o B \o <<EndIf, Load(0)>>

\* The updates of the variable: a += k, a -= k, and one after the other.
Updates ==
    {<<Push(k), Load(0), Add, Store(0)>> : k \in {1, 2}}
    \cup {<<Load(0), Push(k), Sub, Store(0)>> : k \in {1, 2}}
    \cup {<<Push(1), Load(0), Add, Store(0), Load(0), Push(2), Sub, Store(0)>>}

\* The instructions of the generated sequences of branch instructions.
BranchInstructions == {Push(0), Push(1), If, Else, EndIf}

CondPrograms ==
    {TestEvaluationStack(a, b) : a \in TestInputs, b \in TestInputs}
    \cup {TestDataStack(c) : c \in {0, 1}}
    \cup {Conditional(5, 7, c[1], s[1], s[2]) :
              c \in {<<0>>, <<1>>}, s \in {t \in Sides \X Sides : Len(t[1]) = Len(t[2])}}
    \cup {Update(x[1], x[2], u[1], u[2]) : x \in {0, 3} \X {0, 1}, u \in Updates \X Updates}
    \cup SeqsUpTo(BranchInstructions, MaxBranchProgram)

CondInit ==
    /\ cprogram \in CondPrograms
    /\ cpc = 1
    /\ cvm = CondMachine

\* No bytecode runs.
CondIdle ==
    /\ cprogram = <<>>
    /\ cpc = 1
    /\ cvm = CondMachine

\* The run loop: the instruction at cpc is executed unless an error stopped
\* the machine.
CondExecutes(ops) ==
    cvm.status = "ok" /\ cpc <= Len(cprogram) /\ cprogram[cpc].op \in ops

CondExecuted(after) ==
    /\ cvm' = after
    /\ cpc' = cpc + 1
    /\ UNCHANGED cprogram
    /\ CondOnly

StepIf == CondExecutes({"If"}) /\ CondExecuted(ExecIf(cvm))

StepElse == CondExecutes({"Else"}) /\ CondExecuted(ExecElse(cvm))

StepEndIf == CondExecutes({"EndIf"}) /\ CondExecuted(ExecEndIf(cvm))

\* The instructions other than the conditional ones.
StepOther ==
    /\ CondExecutes({"Push", "Load", "Store", "Gt", "Add", "Sub"})
    /\ CondExecuted(CondExec(cvm, cprogram[cpc]))

----------------------------------------------------------------------------
(***************************************************************************)
(* The semantic attribute: Attribute::try_from(SyntaxAttribute).  The      *)
(* locations the elements and the errors carry are left out.               *)
(***************************************************************************)
\* zinc_const::contract::TRANSACTION_FIELDS_COUNT
TRANSACTION_FIELDS_COUNT == 4

\* AttributeElementVariant: None, Some(Value(literal)) and Some(Nested(list)).
NoVariant == [kind |-> "None"]
Value(literal) == [kind |-> "Value", literal |-> literal]
Nested(list) == [kind |-> "Nested", nested |-> list]

\* Literals: an integer literal has a value, which fits the widest integer
\* type or does not; a boolean literal.
Integer(v, fits) == [kind |-> "Integer", value |-> v, fits |-> fits]
Boolean(v) == [kind |-> "Boolean", value |-> v]

\* AttributeElement
Element(path, variant) == [path |-> path, variant |-> variant]

Ok(a) == [state |-> "ok", attribute |-> a]
Err(e) == [state |-> "err", error |-> e]
Pending == [state |-> "pending"]

\* IntegerConstant::try_from(&IntegerLiteral): the value, or an error for a
\* literal that no integer type holds.
IntegerConstant_try_from(literal) ==
    IF literal.fits THEN [state |-> "ok", value |-> literal.value]
    ELSE Err([kind |-> "InvalidInteger"])

\* A field check that does not look at the name of the element.
MsgFieldAnyName(element, position, expected) ==
    IF element.variant.kind = "Value" /\ element.variant.literal.kind = "Integer"
    THEN IntegerConstant_try_from(element.variant.literal)
    ELSE Err([kind |-> "AttributeExpectedIntegerLiteral", name |-> expected])

\* One field of `zksync::msg`: the element removed from the front of the list
\* must have the expected name and an integer literal as its value.
MsgField(element, position, expected) ==
    IF element.path # expected
    THEN Err([kind |-> "AttributeExpectedElement", name |-> "zksync::msg",
              position |-> position, expected |-> expected, found |-> element.path])
    ELSE IF element.variant.kind = "Value" /\ element.variant.literal.kind = "Integer"
    THEN IntegerConstant_try_from(element.variant.literal)
    ELSE Err([kind |-> "AttributeExpectedIntegerLiteral", name |-> expected])

\* A `zksync::msg` arm that checks the names of all elements before the
\* value of any.
ZksyncMsgNamesFirst(element) ==
    IF element.variant.kind # "Nested"
    THEN Err([kind |-> "AttributeExpectedNested", name |-> "zksync::msg"])
    ELSE LET nested == element.variant.nested
             names == <<"sender", "recipient", "token_address", "amount">>
             misnamed == {k \in 1..Len(nested) : k <= TRANSACTION_FIELDS_COUNT
                                                  /\ nested[k].path # names[k]}
             fields == [k \in 1..Len(nested) |->
                           IF k <= TRANSACTION_FIELDS_COUNT
                           THEN MsgField(nested[k], k, names[k]) ELSE Pending]
             failed == {k \in 1..Len(nested) : k <= TRANSACTION_FIELDS_COUNT
                                                /\ fields[k].state # "ok"}
         IN  IF Len(nested) # TRANSACTION_FIELDS_COUNT
             THEN Err([kind |-> "AttributeElementsCount", name |-> element.path,
                       expected |-> TRANSACTION_FIELDS_COUNT, found |-> Len(nested)])
             ELSE IF misnamed # {}
             THEN fields[CHOOSE k \in misnamed : \A j \in misnamed : k <= j]
             ELSE IF failed # {}
             THEN fields[CHOOSE k \in failed : \A j \in failed : k <= j]
             ELSE Ok([kind |-> "ZksyncMsg",
                      sender |-> fields[1].value,
                      recipient |-> fields[2].value,
                      token_address |-> fields[3].value,
                      amount |-> fields[4].value])

\* The `"zksync::msg"` arm of Attribute::try_from.
ZksyncMsg(element) ==
    IF element.variant.kind # "Nested"
    THEN Err([kind |-> "AttributeExpectedNested", name |-> "zksync::msg"])
    ELSE LET nested == element.variant.nested
         IN  IF Len(nested) # TRANSACTION_FIELDS_COUNT
             THEN Err([kind |-> "AttributeElementsCount", name |-> element.path,
                       expected |-> TRANSACTION_FIELDS_COUNT, found |-> Len(nested)])
             ELSE LET sender == MsgField(nested[1], 1, "sender")
                      recipient == MsgField(nested[2], 2, "recipient")
                      token_address == MsgField(nested[3], 3, "token_address")
                      amount == MsgField(nested[4], 4, "amount")
                  IN  IF sender.state # "ok" THEN sender
                      ELSE IF recipient.state # "ok" THEN recipient
                      ELSE IF token_address.state # "ok" THEN token_address
                      ELSE IF amount.state # "ok" THEN amount
                      ELSE Ok([kind |-> "ZksyncMsg",
                               sender |-> sender.value,
                               recipient |-> recipient.value,
                               token_address |-> token_address.value,
                               amount |-> amount.value])

\* A conversion that takes test, should_panic and ignore only without a
\* value or a nested list.
try_from_bare(value) ==
    IF value.elements = <<>> THEN Err([kind |-> "AttributeEmpty"])
    ELSE LET element == value.elements[1]
             identifier == element.path
             bare == element.variant = NoVariant
         IN  CASE identifier = "test" /\ bare -> Ok([kind |-> "Test"])
               [] identifier = "should_panic" /\ bare -> Ok([kind |-> "ShouldPanic"])
               [] identifier = "ignore" /\ bare -> Ok([kind |-> "Ignore"])
               [] identifier = "zksync::msg" -> ZksyncMsg(element)
               [] OTHER -> Err([kind |-> "AttributeUnknown", found |-> identifier])

\* <Attribute as TryFrom<SyntaxAttribute>>::try_from
try_from(value) ==
    IF value.elements = <<>> THEN Err([kind |-> "AttributeEmpty"])
    ELSE LET element == value.elements[1]
             identifier == element.path
         IN  CASE identifier = "test" -> Ok([kind |-> "Test"])
               [] identifier = "should_panic" -> Ok([kind |-> "ShouldPanic"])
               [] identifier = "ignore" -> Ok([kind |-> "Ignore"])
               [] identifier = "zksync::msg" -> ZksyncMsg(element)
               [] OTHER -> Err([kind |-> "AttributeUnknown", found |-> identifier])

\* The names of the `zksync::msg` fields, in the expected order.
MsgNames == <<"sender", "recipient", "token_address", "amount">>

\* The names tried at position k of a nested list: the expected one, the one
\* of the next field (a wrong order) and one that names no field.
NamesAt(k) == {MsgNames[k], MsgNames[(k % TRANSACTION_FIELDS_COUNT) + 1], "fee"}

\* The variants tried for an element of a nested list.
NestedVariants ==
    {NoVariant, Value(Boolean(TRUE)), Value(Integer(1, TRUE)), Value(Integer(2, TRUE)),
     Value(Integer(3, FALSE))}

RECURSIVE ListsUpTo(_)
\* The nested lists of at most n elements.
ListsUpTo(n) ==
    IF n = 0 THEN {<<>>}
    ELSE LET shorter == ListsUpTo(n - 1)
         IN  shorter \cup {Append(q, Element(nm, v)) :
                               q \in {r \in shorter : Len(r) = n - 1},
                               nm \in NamesAt(n), v \in NestedVariants}

\* A well-formed list of the expected fields.
WellFormed ==
    [k \in 1..TRANSACTION_FIELDS_COUNT |-> Element(MsgNames[k], Value(Integer(1, TRUE)))]

\* The nested lists: every list of at most the expected number of elements,
\* and the well-formed list followed by further elements.
NestedLists ==
    ListsUpTo(TRANSACTION_FIELDS_COUNT)
    \cup {WellFormed \o extra :
              extra \in SeqsUpTo({Element("fee", Value(Integer(1, TRUE)))}, MaxExtra)}

\* The first elements whose path is `zksync::msg`, with a nested list.
MsgElements == {Element("zksync::msg", Nested(list)) : list \in NestedLists}

\* The first elements that are followed by further elements: the well-formed
\* `zksync::msg`, one without a nested list, and the other paths.
FirstElements ==
    {Element("zksync::msg", v) : v \in {NoVariant, Value(Integer(1, TRUE)), Nested(WellFormed)}}
    \cup {Element(p, v) : p \in {"test", "should_panic", "ignore", "inline"},
                          v \in {NoVariant, Value(Integer(1, TRUE)), Nested(WellFormed)}}

\* The elements that follow the first one: none, or one more.
FurtherElements ==
    {<<>>, <<Element("test", NoVariant)>>, <<Element("zksync::msg", Nested(WellFormed))>>}

\* The syntax attribute has no element, or a `zksync::msg` with a nested list,
\* or a first element and further ones.
AttrInit ==
    /\ \/ attribute = [elements |-> <<>>]
       \/ \E first \in MsgElements : attribute = [elements |-> <<first>>]
       \/ \E first \in FirstElements, more \in FurtherElements :
              attribute = [elements |-> <<first>> \o more]
    /\ converted = Pending

\* No attribute is converted.
AttrIdle ==
    /\ attribute = [elements |-> <<>>]
    /\ converted = Pending

\* The semantic analyzer converts the attribute.
Convert ==
    /\ converted = Pending
    /\ converted' = try_from(attribute)
    /\ UNCHANGED attribute
    /\ AttrOnly

----------------------------------------------------------------------------
(***************************************************************************)
(* The syntax analyzer: the `use` and `contract` statement parsers.  A     *)
(* token is a lexeme and a location; the location of a token is its        *)
(* position in the token stream.                                           *)
(***************************************************************************)
Token(lexeme, location) == [lexeme |-> lexeme, location |-> location]

\* Option<T>
None == [some |-> FALSE]
Some(v) == [some |-> TRUE, value |-> v]

\* The hints, written without the backquotes around their code fragments.
\* contract.rs: HINT_EXPECTED_IDENTIFIER
HINT_EXPECTED_IDENTIFIER ==
    "contract must have an identifier, e.g. contract Uniswap { ... }"
\* use.rs: HINT_EXPECTED_ALIAS_IDENTIFIER
HINT_EXPECTED_ALIAS_IDENTIFIER ==
    "specify the alias identifier after the as keyword, e.g. use crate::Data as GlobalData;"
\* local_impl.rs: HINT_ONLY_SOME_STATEMENTS, named by the test
\* error_expected_bracket_curly_right; its text is not part of the model.
HINT_ONLY_SOME_STATEMENTS == "HINT_ONLY_SOME_STATEMENTS"

\* SyntaxError::expected_one_of(location, wanted, found, hint)
Expected(location, wanted, found, hint) ==
    [kind |-> "Expected", location |-> location, wanted |-> wanted,
     found |-> found, hint |-> hint]
\* SyntaxError::expected_identifier(location, found, hint)
ExpectedIdentifier(location, found, hint) ==
    [kind |-> "ExpectedIdentifier", location |-> location, found |-> found,
     hint |-> hint]
\* An error of the lexical analyzer, with the offending location.
Lexical(location) == [kind |-> "Lexical", location |-> location]

\* Identifier::new(location, name): the name is the text at the location.
Identifier(location) == [location |-> location]

\* Result<(Statement, Option<Token>), Error>: Ok((statement, next)); the
\* error is Err(error), and Pending while `parse` has not returned.
Parsed(statement, next) == [state |-> "ok", statement |-> statement, next |-> next]

\* UseStatement::new(location, path, alias_identifier)
UseStatement(location, path, alias_identifier) ==
    [location |-> location, path |-> path, alias_identifier |-> alias_identifier]
\* ContractStatement::new(location, identifier, fields, statements)
ContractStatement(location, identifier, fields, statements) ==
    [location |-> location, identifier |-> identifier, fields |-> fields,
     statements |-> statements]

\* UseStatementBuilder::default() and finish()
UseStatementBuilder == [location |-> None, path |-> None, alias_identifier |-> None]
UseFinish(builder) ==
    UseStatement(builder.location.value, builder.path.value, builder.alias_identifier)
\* ContractStatementBuilder::default() and finish()
ContractStatementBuilder ==
    [location |-> None, identifier |-> None, fields |-> <<>>, statements |-> <<>>]
ContractFinish(builder) ==
    ContractStatement(builder.location.value, builder.identifier.value,
                      builder.fields, builder.statements)

\* TokenStream: the token at a position of the stream; past the end of the
\* input the lexical analyzer returns the Eof token.
TokenAt(i) ==
    IF i <= Len(input) THEN Token(input[i], i) ELSE Token("Eof", Len(input) + 1)

\* TokenStream::next after `read` tokens: the next token, or the error of the
\* lexical analyzer for a malformed one.
StreamNext(read) ==
    LET token == TokenAt(read + 1)
    IN  IF token.lexeme = "Invalid"
        THEN [ok |-> FALSE, error |-> Lexical(token.location), read |-> read + 1]
        ELSE [ok |-> TRUE, token |-> token, read |-> read + 1]

\* syntax::parser::take_or_next(token, stream): the given token if there is
\* one, else the next token of the stream.
take_or_next(token, read) ==
    IF token.some THEN [ok |-> TRUE, token |-> token.value, read |-> read]
    ELSE StreamNext(read)

\* What a sub-parser returns: Ok((value, next)) or Err(error), and the number
\* of tokens the stream has given out by then.
SubOk(value, next, read) == [ok |-> TRUE, value |-> value, next |-> next, read |-> read]
SubErr(error, read) == [ok |-> FALSE, error |-> error, read |-> read]

\* PathOperandParser::parse(stream, None): identifiers separated by `::`;
\* the token after the last identifier is returned as the lookahead.
RECURSIVE PathOperandParser(_, _)
PathOperandParser(read, path) ==
    LET identifier == StreamNext(read)
        after == StreamNext(identifier.read)
    IN  IF ~identifier.ok THEN SubErr(identifier.error, identifier.read)
        ELSE IF identifier.token.lexeme # "id"
        THEN SubErr(ExpectedIdentifier(identifier.token.location,
                                       identifier.token.lexeme, None),
                    identifier.read)
        ELSE IF ~after.ok THEN SubErr(after.error, after.read)
        ELSE IF after.token.lexeme = "::"
        THEN PathOperandParser(after.read,
                               Append(path, Identifier(identifier.token.location)))
        ELSE SubOk(Append(path, Identifier(identifier.token.location)),
                   Some(after.token), after.read)

\* A sub-parser reading the tokens of a fixed production one after another;
\* it stops with an error at the first token that is not the wanted one.
RECURSIVE ExpectAll(_, _)
ExpectAll(read, wanted) ==
    IF wanted = <<>> THEN SubOk(<<>>, None, read)
    ELSE LET t == StreamNext(read)
         IN  IF ~t.ok THEN SubErr(t.error, t.read)
             ELSE IF t.token.lexeme = Head(wanted) THEN ExpectAll(t.read, Tail(wanted))
             ELSE IF Head(wanted) = "id"
             THEN SubErr(ExpectedIdentifier(t.token.location, t.token.lexeme, None),
                         t.read)
             ELSE SubErr(Expected(t.token.location, <<Head(wanted)>>,
                                  t.token.lexeme, None), t.read)

\* FieldListParser::parse(stream, None): fields `identifier: type` separated
\* by commas, a trailing comma allowed; the first token that continues no
\* field is returned as the lookahead.
RECURSIVE FieldListParser(_, _)
FieldListParser(read, fields) ==
    LET identifier == StreamNext(read)
        rest == ExpectAll(identifier.read, <<":", "u8">>)
        after == StreamNext(rest.read)
        field == [location |-> identifier.token.location,
                  identifier |-> Identifier(identifier.token.location)]
    IN  IF ~identifier.ok THEN SubErr(identifier.error, identifier.read)
        ELSE IF identifier.token.lexeme # "id"
        THEN SubOk(fields, Some(identifier.token), identifier.read)
        ELSE IF ~rest.ok THEN rest
        ELSE IF ~after.ok THEN SubErr(after.error, after.read)
        ELSE IF after.token.lexeme = ","
        THEN FieldListParser(after.read, Append(fields, field))
        ELSE SubOk(Append(fields, field), Some(after.token), after.read)

\* The productions of the statements a contract may hold, after the keyword:
\* `const NAME: u8 = 1;` and `fn name() {}`.
ConstStatement == <<"id", ":", "u8", "=", "1", ";">>
FnStatement == <<"id", "(", ")", "{", "}">>

\* ImplementationLocalStatementParser::parse(stream, Some(token)): a `const`
\* or a `fn` statement; any other first token is an error with a hint.  The
\* parser returns (statement, next): it ends with the last token of the
\* statement and returns None, or (ahead) it has read the token after the
\* statement and hands it back.
ImplementationLocalStatementParser(read, initial, ahead) ==
    LET token == initial.value
        rest == ExpectAll(read, IF token.lexeme = "const" THEN ConstStatement
                                ELSE FnStatement)
        after == StreamNext(rest.read)
        statement == [kind |-> token.lexeme, location |-> token.location]
    IN  IF token.lexeme \notin {"const", "fn"}
        THEN SubErr(Expected(token.location, <<"const", "fn">>, token.lexeme,
                             Some(HINT_ONLY_SOME_STATEMENTS)), read)
        ELSE IF ~rest.ok THEN rest
        ELSE IF ~ahead THEN SubOk(statement, None, rest.read)
        ELSE IF ~after.ok THEN SubErr(after.error, after.read)
        ELSE SubOk(statement, Some(after.token), after.read)

\* Parser::default(), called with `initial`, on a stream that has given out
\* `read` tokens.  The fields obtained, consumed and examined record what
\* the parser did with its tokens: the tokens it obtained (the `initial`
\* argument, the tokens it read from the stream, the tokens its sub-parsers
\* handed back), the tokens it consumed itself or gave to a sub-parser, and
\* the tokens it matched on, each with the number of tokens read by then.
ParserDefault(state, builder, initial, read) ==
    [state |-> state, builder |-> builder, next |-> None, initial |-> initial,
     read |-> read, result |-> Pending,
     obtained |-> IF initial.some THEN <<initial.value>> ELSE <<>>,
     consumed |-> <<>>, examined |-> <<>>]

\* `return result`
Return(p, result) == [p EXCEPT !.result = result]

\* The parser after `take_or_next(slot.take(), stream)` returned t, where
\* slot is self.next or initial.
Taken(p, slot, t) ==
    LET q == [p EXCEPT ![slot] = None, !.read = t.read]
    IN  IF t.ok
        THEN [q EXCEPT !.obtained = IF p[slot].some THEN @ ELSE Append(@, t.token),
                       !.examined = Append(@, [token |-> t.token, read |-> t.read])]
        ELSE q

\* The token becomes part of the production (or of a sub-parser's).
Consume(p, token) == [p EXCEPT !.consumed = Append(@, token)]

\* A sub-parser returned `next`.
Handed(p, next) ==
    IF next.some THEN [p EXCEPT !.obtained = Append(@, next.value)] ELSE p

\* ---- use.rs: Parser::parse, one operator per state of the loop ----

\* A KeywordUse step that goes on after a token that is not `use`.
UseKeywordUseLenient(p) ==
    LET t == take_or_next(p.initial, p.read)
        q == Taken(p, "initial", t)
    IN  IF ~t.ok THEN Return(q, Err(t.error))
        ELSE Consume([q EXCEPT !.builder.location = Some(t.token.location),
                               !.state = "Path"], t.token)

UseKeywordUse(p) ==
    LET t == take_or_next(p.initial, p.read)
        q == Taken(p, "initial", t)
    IN  IF ~t.ok THEN Return(q, Err(t.error))
        ELSE IF t.token.lexeme = "use"
        THEN Consume([q EXCEPT !.builder.location = Some(t.token.location),
                               !.state = "Path"], t.token)
        ELSE Return(q, Err(Expected(t.token.location, <<"use">>, t.token.lexeme, None)))

UsePath(p) ==
    LET s == PathOperandParser(p.read, <<>>)
        q == [p EXCEPT !.read = s.read]
    IN  IF ~s.ok THEN Return(q, Err(s.error))
        ELSE Handed([q EXCEPT !.builder.path = Some(s.value),
                              !.next = s.next,
                              !.state = "AsOrNext"], s.next)

\* An AsOrNext step that goes on to the alias identifier whatever the token.
UseAsOrNextAlwaysAlias(p) ==
    LET t == take_or_next(p.next, p.read)
        q == Taken(p, "next", t)
    IN  IF ~t.ok THEN Return(q, Err(t.error))
        ELSE IF t.token.lexeme = "as"
        THEN Consume([q EXCEPT !.state = "AliasIdentifier"], t.token)
        ELSE [q EXCEPT !.next = Some(t.token), !.state = "AliasIdentifier"]

\* An AsOrNext step that does not keep the token that is not `as`.
UseAsOrNextDrops(p) ==
    LET t == take_or_next(p.next, p.read)
        q == Taken(p, "next", t)
    IN  IF ~t.ok THEN Return(q, Err(t.error))
        ELSE IF t.token.lexeme = "as"
        THEN Consume([q EXCEPT !.state = "AliasIdentifier"], t.token)
        ELSE [q EXCEPT !.state = "Semicolon"]

UseAsOrNext(p) ==
    LET t == take_or_next(p.next, p.read)
        q == Taken(p, "next", t)
    IN  IF ~t.ok THEN Return(q, Err(t.error))
        ELSE IF t.token.lexeme = "as"
        THEN Consume([q EXCEPT !.state = "AliasIdentifier"], t.token)
        ELSE [q EXCEPT !.next = Some(t.token), !.state = "Semicolon"]

\* An AliasIdentifier step that does not keep the identifier.
UseAliasIdentifierForgets(p) ==
    LET t == take_or_next(p.next, p.read)
        q == Taken(p, "next", t)
    IN  IF ~t.ok THEN Return(q, Err(t.error))
        ELSE IF t.token.lexeme = "id"
        THEN Consume([q EXCEPT !.state = "Semicolon"], t.token)
        ELSE Return(q, Err(ExpectedIdentifier(t.token.location, t.token.lexeme,
                                              Some(HINT_EXPECTED_ALIAS_IDENTIFIER))))

\* An AliasIdentifier step whose error has no hint.
UseAliasIdentifierNoHint(p) ==
    LET t == take_or_next(p.next, p.read)
        q == Taken(p, "next", t)
    IN  IF ~t.ok THEN Return(q, Err(t.error))
        ELSE IF t.token.lexeme = "id"
        THEN Consume([q EXCEPT !.builder.alias_identifier =
                                   Some(Identifier(t.token.location)),
                               !.state = "Semicolon"], t.token)
        ELSE Return(q, Err(ExpectedIdentifier(t.token.location, t.token.lexeme, None)))

UseAliasIdentifier(p) ==
    LET t == take_or_next(p.next, p.read)
        q == Taken(p, "next", t)
    IN  IF ~t.ok THEN Return(q, Err(t.error))
        ELSE IF t.token.lexeme = "id"
        THEN Consume([q EXCEPT !.builder.alias_identifier =
                                   Some(Identifier(t.token.location)),
                               !.state = "Semicolon"], t.token)
        ELSE Return(q, Err(ExpectedIdentifier(t.token.location, t.token.lexeme,
                                              Some(HINT_EXPECTED_ALIAS_IDENTIFIER))))

\* A Semicolon step that takes the end of the input for the semicolon.
UseSemicolonOrEof(p) ==
    LET t == take_or_next(p.next, p.read)
        q == Taken(p, "next", t)
    IN  IF ~t.ok THEN Return(q, Err(t.error))
        ELSE IF t.token.lexeme \in {";", "Eof"}
        THEN Return(Consume(q, t.token), Parsed(UseFinish(q.builder), None))
        ELSE Return(q, Err(Expected(t.token.location, <<";">>, t.token.lexeme, None)))

UseSemicolon(p) ==
    LET t == take_or_next(p.next, p.read)
        q == Taken(p, "next", t)
    IN  IF ~t.ok THEN Return(q, Err(t.error))
        ELSE IF t.token.lexeme = ";"
        THEN Return(Consume(q, t.token), Parsed(UseFinish(q.builder), None))
        ELSE Return(q, Err(Expected(t.token.location, <<";">>, t.token.lexeme, None)))

\* ---- contract.rs: Parser::parse, one operator per state of the loop ----

ContractKeywordContract(p) ==
    LET t == take_or_next(p.initial, p.read)
        q == Taken(p, "initial", t)
    IN  IF ~t.ok THEN Return(q, Err(t.error))
        ELSE IF t.token.lexeme = "contract"
        THEN Consume([q EXCEPT !.builder.location = Some(t.token.location),
                               !.state = "Identifier"], t.token)
        ELSE Return(q, Err(Expected(t.token.location, <<"contract">>,
                                    t.token.lexeme, None)))

\* An Identifier step that reports the error at the `contract` keyword.
ContractIdentifierAtKeyword(p) ==
    LET t == take_or_next(p.next, p.read)
        q == Taken(p, "next", t)
    IN  IF ~t.ok THEN Return(q, Err(t.error))
        ELSE IF t.token.lexeme = "id"
        THEN Consume([q EXCEPT !.builder.identifier =
                                   Some(Identifier(t.token.location)),
                               !.state = "BracketCurlyLeftOrEnd"], t.token)
        ELSE Return(q, Err(ExpectedIdentifier(q.builder.location.value, t.token.lexeme,
                                              Some(HINT_EXPECTED_IDENTIFIER))))

ContractIdentifier(p) ==
    LET t == take_or_next(p.next, p.read)
        q == Taken(p, "next", t)
    IN  IF ~t.ok THEN Return(q, Err(t.error))
        ELSE IF t.token.lexeme = "id"
        THEN Consume([q EXCEPT !.builder.identifier =
                                   Some(Identifier(t.token.location)),
                               !.state = "BracketCurlyLeftOrEnd"], t.token)
        ELSE Return(q, Err(ExpectedIdentifier(t.token.location, t.token.lexeme,
                                              Some(HINT_EXPECTED_IDENTIFIER))))

\* A BracketCurlyLeftOrEnd step that keeps the token that is not `{`.
ContractBracketCurlyLeftOrEndNoLookahead(p) ==
    LET t == take_or_next(p.next, p.read)
        q == Taken(p, "next", t)
    IN  IF ~t.ok THEN Return(q, Err(t.error))
        ELSE IF t.token.lexeme = "{"
        THEN Consume([q EXCEPT !.state = "FieldList"], t.token)
        ELSE Return(q, Parsed(ContractFinish(q.builder), None))

ContractBracketCurlyLeftOrEnd(p) ==
    LET t == take_or_next(p.next, p.read)
        q == Taken(p, "next", t)
    IN  IF ~t.ok THEN Return(q, Err(t.error))
        ELSE IF t.token.lexeme = "{"
        THEN Consume([q EXCEPT !.state = "FieldList"], t.token)
        ELSE Return(q, Parsed(ContractFinish(q.builder), Some(t.token)))

ContractFieldList(p) ==
    LET s == FieldListParser(p.read, <<>>)
        q == [p EXCEPT !.read = s.read]
    IN  IF ~s.ok THEN Return(q, Err(s.error))
        ELSE Handed([q EXCEPT !.builder.fields = s.value,
                              !.next = s.next,
                              !.state = "StatementOrBracketCurlyRight"], s.next)

\* A StatementOrBracketCurlyRight step that goes back to the fields after a
\* statement.
ContractStatementThenFieldList(p, ahead) ==
    LET t == take_or_next(p.next, p.read)
        q == Taken(p, "next", t)
        s == ImplementationLocalStatementParser(q.read, Some(t.token), ahead)
        r == Consume([q EXCEPT !.read = s.read], t.token)
    IN  IF ~t.ok THEN Return(q, Err(t.error))
        ELSE IF t.token.lexeme = "}"
        THEN Return(Consume(q, t.token), Parsed(ContractFinish(q.builder), None))
        ELSE IF ~s.ok THEN Return(r, Err(s.error))
        ELSE Handed([r EXCEPT !.next = s.next,
                              !.builder.statements = Append(@, s.value),
                              !.state = "FieldList"], s.next)

\* A StatementOrBracketCurlyRight step that does not keep the token the
\* statement parser hands back.
ContractStatementDropsNext(p, ahead) ==
    LET t == take_or_next(p.next, p.read)
        q == Taken(p, "next", t)
        s == ImplementationLocalStatementParser(q.read, Some(t.token), ahead)
        r == Consume([q EXCEPT !.read = s.read], t.token)
    IN  IF ~t.ok THEN Return(q, Err(t.error))
        ELSE IF t.token.lexeme = "}"
        THEN Return(Consume(q, t.token), Parsed(ContractFinish(q.builder), None))
        ELSE IF ~s.ok THEN Return(r, Err(s.error))
        ELSE Handed([r EXCEPT !.builder.statements = Append(@, s.value)], s.next)

ContractStatementOrBracketCurlyRight(p, ahead) ==
    LET t == take_or_next(p.next, p.read)
        q == Taken(p, "next", t)
        s == ImplementationLocalStatementParser(q.read, Some(t.token), ahead)
        r == Consume([q EXCEPT !.read = s.read], t.token)
    IN  IF ~t.ok THEN Return(q, Err(t.error))
        ELSE IF t.token.lexeme = "}"
        THEN Return(Consume(q, t.token), Parsed(ContractFinish(q.builder), None))
        ELSE IF ~s.ok THEN Return(r, Err(s.error))
        ELSE Handed([r EXCEPT !.next = s.next,
                              !.builder.statements = Append(@, s.value)], s.next)

\* ---- the statements given to the parsers ----

Lexemes ==
    {"use", "contract", "as", "id", "::", ";", "{", "}", ":", ",", "u8", "=", "1",
     "(", ")", "const", "fn", "Invalid"}

\* id, id :: id, ...
RECURSIVE Paths(_)
Paths(n) ==
    IF n = 1 THEN {<<"id">>}
    ELSE Paths(n - 1) \cup {path \o <<"::", "id">> : path \in Paths(n - 1)}

UseStatements ==
    {<<"use">> \o path \o alias \o <<";">> :
        path \in Paths(MaxSegments), alias \in {<<>>, <<"as", "id">>}}

\* The field lists of up to n fields, with and without a trailing comma.
RECURSIVE FieldLists(_)
FieldLists(n) ==
    IF n = 0 THEN {<<>>}
    ELSE FieldLists(n - 1)
         \cup {<<"id", ":", "u8", ",">> \o fields : fields \in FieldLists(n - 1)}
         \cup {<<"id", ":", "u8">>}

\* The sequences of up to n `const` and `fn` statements.
RECURSIVE StatementLists(_)
StatementLists(n) ==
    IF n = 0 THEN {<<>>}
    ELSE StatementLists(n - 1)
         \cup {statement \o statements :
                 statement \in {<<"const">> \o ConstStatement, <<"fn">> \o FnStatement},
                 statements \in StatementLists(n - 1)}

ContractStatements ==
    {<<"contract", "id", ";">>}
    \cup {<<"contract", "id", "{">> \o fields \o statements \o <<"}">> :
            fields \in FieldLists(MaxFields), statements \in StatementLists(MaxStatements)}

\* Parser::default().parse(stream, initial) is called on a statement, or on a
\* statement with one token replaced or cut short; `initial` is None, or the
\* first token, which the caller has read from the stream.
ParserInit ==
    \E k \in {"use", "contract"} :
    \E statement \in (IF k = "use" THEN UseStatements ELSE ContractStatements) :
    \E i \in 0 .. Len(statement), lexeme \in Lexemes \cup {"Eof"}, given \in BOOLEAN :
        /\ kind = k
        /\ input = IF i = 0 THEN statement
                   ELSE IF lexeme = "Eof" THEN SubSeq(statement, 1, i - 1)
                   ELSE [statement EXCEPT ![i] = lexeme]
        /\ parser = IF given /\ input # <<>> /\ input[1] # "Invalid"
                    THEN ParserDefault(IF k = "use" THEN "KeywordUse" ELSE "KeywordContract",
                                       IF k = "use" THEN UseStatementBuilder
                                       ELSE ContractStatementBuilder,
                                       Some(Token(input[1], 1)), 1)
                    ELSE ParserDefault(IF k = "use" THEN "KeywordUse" ELSE "KeywordContract",
                                       IF k = "use" THEN UseStatementBuilder
                                       ELSE ContractStatementBuilder, None, 0)

\* No statement is parsed.
ParserIdle ==
    /\ kind = "use"
    /\ input = <<>>
    /\ parser = ParserDefault("KeywordUse", UseStatementBuilder, None, 0)

\* One turn of the loop of Parser::parse in the given state.
Turn(k, state) ==
    /\ kind = k
    /\ parser.result = Pending
    /\ parser.state = state
    /\ UNCHANGED <<kind, input>>
    /\ ParserOnly

StepKeywordUse == Turn("use", "KeywordUse") /\ parser' = UseKeywordUse(parser)
StepPath == Turn("use", "Path") /\ parser' = UsePath(parser)
StepAsOrNext == Turn("use", "AsOrNext") /\ parser' = UseAsOrNext(parser)
StepAliasIdentifier ==
    Turn("use", "AliasIdentifier") /\ parser' = UseAliasIdentifier(parser)
StepSemicolon == Turn("use", "Semicolon") /\ parser' = UseSemicolon(parser)
StepKeywordContract ==
    Turn("contract", "KeywordContract") /\ parser' = ContractKeywordContract(parser)
StepIdentifier == Turn("contract", "Identifier") /\ parser' = ContractIdentifier(parser)
StepBracketCurlyLeftOrEnd ==
    /\ Turn("contract", "BracketCurlyLeftOrEnd")
    /\ parser' = ContractBracketCurlyLeftOrEnd(parser)
StepFieldList == Turn("contract", "FieldList") /\ parser' = ContractFieldList(parser)
StepStatementOrBracketCurlyRight ==
    /\ Turn("contract", "StatementOrBracketCurlyRight")
    /\ \E ahead \in BOOLEAN :
           parser' = ContractStatementOrBracketCurlyRight(parser, ahead)

----------------------------------------------------------------------------
(***************************************************************************)
(* The constant arrays of the semantic analyzer: an array literal is built *)
(* element by element and then indexed or sliced by constants.  The        *)
(* integers of the errors stand for their decimal strings.                 *)
(***************************************************************************)
\* ArrayConstantError
PushingInvalidType(expected, found) ==
    [kind |-> "PushingInvalidType", expected |-> expected, found |-> found]
IndexOutOfRange(index, size) ==
    [kind |-> "IndexOutOfRange", index |-> index, size |-> size]
SliceStartOutOfRange(start) == [kind |-> "SliceStartOutOfRange", start |-> start]
SliceEndOutOfRange(end, size) ==
    [kind |-> "SliceEndOutOfRange", end |-> end, size |-> size]
SliceEndLesserThanStart(start, end) ==
    [kind |-> "SliceEndLesserThanStart", start |-> start, end |-> end]

\* Result<T, Error>: the error is Err(error).
Done(value) == [state |-> "ok", value |-> value]
\* SemanticError::Element(location, error)
At(location, error) == [location |-> location, error |-> error]

\* Array::new: no values; the element type is set by the first element.
ArrayNew == [type |-> None, values |-> <<>>]

\* BigInt::to_usize
to_usize(integer) == IF integer < 0 THEN None ELSE Some(integer)

\* A push that checks no type.
ArrayPushUnchecked(a, element) ==
    Done([type |-> IF Len(a.values) = 0 THEN Some(element.type) ELSE a.type,
          values |-> Append(a.values, element.value)])

\* Array::push(value): the first element sets the element type, a further
\* element must have it.
ArrayPush(a, element) ==
    IF Len(a.values) = 0
    THEN Done([type |-> Some(element.type), values |-> <<element.value>>])
    ELSE IF element.type # a.type.value
    THEN Err(PushingInvalidType(a.type.value, element.type))
    ELSE Done([a EXCEPT !.values = Append(@, element.value)])

\* An index check that lets the size itself through.
slice_single_inclusive(a, index) ==
    LET i == to_usize(index)
    IN  IF ~i.some \/ i.value > Len(a.values)
        THEN Err(IndexOutOfRange(index, Len(a.values)))
        ELSE Done(IF i.value < Len(a.values) THEN a.values[i.value + 1] ELSE 0)

\* Array::slice_single(index): the element at a constant index, counted
\* from zero.
slice_single(a, index) ==
    LET i == to_usize(index)
    IN  IF ~i.some \/ i.value >= Len(a.values)
        THEN Err(IndexOutOfRange(index, Len(a.values)))
        ELSE Done(a.values[i.value + 1])

\* Vec::drain(start .. start + length), collected.
RECURSIVE Drain(_, _, _)
Drain(values, start, length) ==
    IF length = 0 THEN <<>>
    ELSE <<values[start + 1]>> \o Drain(values, start + 1, length - 1)

\* A slice that takes its end as inclusive.
slice_range_inclusive(a, start, end) ==
    IF start < 0 THEN Err(SliceStartOutOfRange(start))
    ELSE IF end > Len(a.values) THEN Err(SliceEndOutOfRange(end, Len(a.values)))
    ELSE IF end < start THEN Err(SliceEndLesserThanStart(start, end))
    ELSE IF end = Len(a.values)
    THEN Done([a EXCEPT !.values = Drain(a.values, start, end - start)])
    ELSE Done([a EXCEPT !.values = Drain(a.values, start, end - start + 1)])

\* Array::slice_range(start .. end): the checks, in this order, and the
\* elements from start up to end, end excluded.
slice_range(a, start, end) ==
    IF start < 0 THEN Err(SliceStartOutOfRange(start))
    ELSE IF end > Len(a.values) THEN Err(SliceEndOutOfRange(end, Len(a.values)))
    ELSE IF end < start THEN Err(SliceEndLesserThanStart(start, end))
    ELSE Done([a EXCEPT !.values = Drain(a.values, start, end - start)])

\* The elements of an array literal: an integer of the type u8 or u16, or a
\* boolean; the value of an element is its place in the literal.
ElementTypes == {"u8", "u16", "bool"}
Literals(types) ==
    [i \in 1 .. Len(types) |-> [type |-> types[i], value |-> i, location |-> i]]

\* `[1, 2, 3, 4, 5]`, and the literals of its kind.
Integers(n) == Literals([i \in 1 .. n |-> "u8"])

\* The constant indexes and slice bounds.
Bounds == -2 .. MaxArray + 1

NoAccess == [op |-> "none"]
IndexAccess(index) == [op |-> "index", index |-> index]
RangeAccess(start, end) == [op |-> "range", start |-> start, end |-> end]

\* The analyzer evaluates an array literal, alone or followed by an index or
\* a range.
ArrayInit ==
    /\ arrayConstant = ArrayNew
    /\ arrayResult = Pending
    /\ \/ /\ \E types \in SeqsUpTo(ElementTypes, MaxArray) : arrayLiteral = Literals(types)
          /\ arrayAccess = NoAccess
       \/ /\ \E n \in 0 .. MaxArray : arrayLiteral = Integers(n)
          /\ \/ \E index \in Bounds : arrayAccess = IndexAccess(index)
             \/ \E start \in Bounds, end \in Bounds : arrayAccess = RangeAccess(start, end)

\* No array is evaluated.
ArrayIdle ==
    /\ arrayConstant = ArrayNew
    /\ arrayResult = Pending
    /\ arrayLiteral = <<>>
    /\ arrayAccess = NoAccess

\* The next element of the literal is pushed; an error is reported at the
\* location of the element.
StepArrayPush ==
    /\ arrayResult = Pending
    /\ Len(arrayConstant.values) < Len(arrayLiteral)
    /\ LET element == arrayLiteral[Len(arrayConstant.values) + 1]
           pushed == ArrayPush(arrayConstant, element)
       IN  IF pushed.state = "ok"
           THEN /\ arrayConstant' = pushed.value
                /\ arrayResult' = IF Len(arrayLiteral) = Len(arrayConstant.values) + 1 /\ arrayAccess = NoAccess
                              THEN Done(pushed.value) ELSE Pending
           ELSE /\ arrayResult' = Err(At(element.location, pushed.error))
                /\ UNCHANGED arrayConstant
    /\ UNCHANGED <<arrayLiteral, arrayAccess>>
    /\ ArrayOnly

\* The literal is indexed.
StepArrayIndex ==
    /\ arrayResult = Pending
    /\ Len(arrayConstant.values) = Len(arrayLiteral)
    /\ arrayAccess.op = "index"
    /\ arrayResult' = slice_single(arrayConstant, arrayAccess.index)
    /\ UNCHANGED <<arrayConstant, arrayLiteral, arrayAccess>>
    /\ ArrayOnly

\* The literal is sliced.
StepArrayRange ==
    /\ arrayResult = Pending
    /\ Len(arrayConstant.values) = Len(arrayLiteral)
    /\ arrayAccess.op = "range"
    /\ arrayResult' = slice_range(arrayConstant, arrayAccess.start, arrayAccess.end)
    /\ UNCHANGED <<arrayConstant, arrayLiteral, arrayAccess>>
    /\ ArrayOnly

----------------------------------------------------------------------------
(***************************************************************************)
(* The Cast instruction of the bytecode: its construction, its binary      *)
(* encoding and the decoding of that encoding.                             *)
(***************************************************************************)
\* The values of a u8.
U8 == 0 .. 255

\* `InstructionCode::Cast as u8`, the first byte of the encoding.
InstructionCodeCast == "InstructionCode::Cast"

\* `pub struct Cast;`: a struct without fields holds no operand.
Cast == [op |-> "Cast", operands |-> <<>>]

\* Cast::new(_signed, _length)
CastNew(signed, length) == Cast

\* Cast::encode
CastEncode(instruction) == <<InstructionCodeCast>>

\* decode_simple_instruction: the default instruction and the number of
\* bytes read, or an error for bytes that do not start with its code.
decode_simple_instruction(bytes) ==
    IF bytes = <<>> THEN Err([kind |-> "UnexpectedEOF"])
    ELSE IF bytes[1] # InstructionCodeCast THEN Err([kind |-> "UnknownInstructionCode"])
    ELSE [state |-> "ok", instruction |-> Cast, read |-> 1]

\* Cast::decode
CastDecode(bytes) == decode_simple_instruction(bytes)

\* A cast to a type of some signedness and bit width is to be emitted.
CastInit ==
    \E signed \in BOOLEAN, length \in U8 :
        cast = [signed |-> signed, length |-> length, instruction |-> None,
                bytes |-> None, decoded |-> Pending]

\* No cast is emitted.
CastIdle ==
    cast = [signed |-> FALSE, length |-> 0, instruction |-> None,
            bytes |-> None, decoded |-> Pending]

\* The instruction is constructed.
StepCastNew ==
    /\ ~cast.instruction.some
    /\ cast' = [cast EXCEPT !.instruction = Some(CastNew(cast.signed, cast.length))]
    /\ CastOnly

\* The instruction is encoded.
StepCastEncode ==
    /\ cast.instruction.some /\ ~cast.bytes.some
    /\ cast' = [cast EXCEPT !.bytes = Some(CastEncode(cast.instruction.value))]
    /\ CastOnly

\* The encoding is decoded.
StepCastDecode ==
    /\ cast.bytes.some /\ cast.decoded = Pending
    /\ cast' = [cast EXCEPT !.decoded = CastDecode(cast.bytes.value)]
    /\ CastOnly

----------------------------------------------------------------------------
(***************************************************************************)
(* The `build` subcommand of the package manager, in its newer             *)
(* (arguments/command/build.rs) and its older (command/build.rs) form.     *)
(* The manifest, the file system, the downloader and the compiler are the  *)
(* environment: each of their calls succeeds or fails, as the command      *)
(* record says.  A run records the calls made, in order.                   *)
(***************************************************************************)
\* zinc_manifest::ProjectType
ProjectTypes == {"Circuit", "Contract", "Library"}

\* zksync::Network::from_str accepts the names of the networks; try_into_url
\* has a URL for some of them.
NetworkNames == {"localhost", "rinkeby", "ropsten", "mainnet"}
NetworkUrls == {"localhost", "rinkeby"}

\* The calls of the newer command that may fail, in the order of the code.
NewerCalls ==
    <<"Manifest::try_from", "PrivateKeyFile::write_to", "TargetDirectory::create",
      "TargetDependenciesDirectory::create", "DataDirectory::create",
      "Downloader::download_list", "Compiler::build_release", "Compiler::build_debug">>

\* The calls of the older command that may fail, in the order of the code.
OlderCalls ==
    <<"Manifest::try_from", "SourceDirectory::files", "BuildDirectory::create",
      "DataDirectory::create", "Compiler::build">>

\* The elements of a sequence.
Range(calls) == {calls[i] : i \in DOMAIN calls}

\* `Ok(())`
Built == [state |-> "ok"]

\* The run of a command that has made no call yet; the private key file is
\* absent or the existing one.
NotStarted(cmd) == [ran |-> <<>>, private_key |-> cmd.private_key, result |-> Pending]

\* `return Err(error)` of the `?` operator.
Raise(run, error) == [run EXCEPT !.result = Err(error)]

\* `callee(...)?`: the call is made unless the command has returned, and its
\* error is returned at once.
Call(cmd, run, callee) ==
    IF run.result # Pending THEN run
    ELSE LET made == [run EXCEPT !.ran = Append(@, callee)]
         IN  IF callee \in cmd.failing THEN Raise(made, [kind |-> callee]) ELSE made

\* A command that writes the default private key of a contract whether the
\* file exists or not.
PrivateKeyOverwrites(cmd, run) ==
    IF run.result # Pending THEN run
    ELSE IF cmd.type = "Contract"
    THEN LET written == Call(cmd, run, "PrivateKeyFile::write_to")
         IN  IF written.result # Pending THEN written
             ELSE [written EXCEPT !.private_key = "default"]
    ELSE run

\* `if let ProjectType::Contract = manifest.project.r#type { if
\* !PrivateKeyFile::exists_at(..) { PrivateKeyFile::default().write_to(..)?; } }`
PrivateKey(cmd, run) ==
    IF run.result # Pending THEN run
    ELSE IF cmd.type = "Contract" /\ run.private_key = "absent"
    THEN LET written == Call(cmd, run, "PrivateKeyFile::write_to")
         IN  IF written.result # Pending THEN written
             ELSE [written EXCEPT !.private_key = "default"]
    ELSE run

\* A command that reads the network name whether the manifest has
\* dependencies or not.
NetworkAlways(cmd, run) ==
    IF run.result # Pending THEN run
    ELSE LET parsed == [run EXCEPT !.ran = Append(@, "Network::from_str")]
             url == [parsed EXCEPT !.ran = Append(@, "Network::try_into_url")]
         IN  IF cmd.network \notin NetworkNames
             THEN Raise(parsed, [kind |-> "NetworkInvalid", name |-> cmd.network])
             ELSE IF cmd.network \notin NetworkUrls
             THEN Raise(url, [kind |-> "NetworkUnimplemented", name |-> cmd.network])
             ELSE url

\* `zksync::Network::from_str(..).map(Network::from).map_err(NetworkInvalid)?`
\* and `network.try_into_url().map_err(NetworkUnimplemented)?`, inside
\* `if let Some(dependencies) = manifest.dependencies`.
Network(cmd, run) ==
    IF run.result # Pending \/ ~cmd.dependencies.some THEN run
    ELSE LET parsed == [run EXCEPT !.ran = Append(@, "Network::from_str")]
             url == [parsed EXCEPT !.ran = Append(@, "Network::try_into_url")]
         IN  IF cmd.network \notin NetworkNames
             THEN Raise(parsed, [kind |-> "NetworkInvalid", name |-> cmd.network])
             ELSE IF cmd.network \notin NetworkUrls
             THEN Raise(url, [kind |-> "NetworkUnimplemented", name |-> cmd.network])
             ELSE url

\* `downloader.download_list(dependencies).await?`, inside the same `if let`.
Download(cmd, run) ==
    IF ~cmd.dependencies.some THEN run
    ELSE Call(cmd, run, "Downloader::download_list")

\* A command that builds the debug version before the release version.
CompileDebugFirst(cmd, run) ==
    IF cmd.is_release
    THEN Call(cmd, Call(cmd, run, "Compiler::build_debug"), "Compiler::build_release")
    ELSE Call(cmd, run, "Compiler::build_debug")

\* `if self.is_release { Compiler::build_release(..)?; } else {
\* Compiler::build_debug(..)?; }`
Compile(cmd, run) ==
    IF cmd.is_release THEN Call(cmd, run, "Compiler::build_release")
    ELSE Call(cmd, run, "Compiler::build_debug")

\* `Ok(())` at the end of execute.
Finish(run) == IF run.result # Pending THEN run ELSE [run EXCEPT !.result = Built]

\* Command::execute of arguments/command/build.rs
Execute(cmd, run) ==
    LET manifest == Call(cmd, run, "Manifest::try_from")
        key == PrivateKey(cmd, manifest)
        target == Call(cmd, key, "TargetDirectory::create")
        deps == Call(cmd, target, "TargetDependenciesDirectory::create")
        data_directory == Call(cmd, deps, "DataDirectory::create")
        network == Network(cmd, data_directory)
        downloaded == Download(cmd, network)
    IN  Finish(Compile(cmd, downloaded))

\* Command::execute of command/build.rs
OlderExecute(cmd, run) ==
    LET manifest == Call(cmd, run, "Manifest::try_from")
        sources == Call(cmd, manifest, "SourceDirectory::files")
        build_directory == Call(cmd, sources, "BuildDirectory::create")
        data_directory == Call(cmd, build_directory, "DataDirectory::create")
    IN  Finish(Call(cmd, data_directory, "Compiler::build"))

\* The command line, the manifest and the project directory of the newer
\* command, and the calls the environment lets fail.
NewerCommands ==
    [newer : {TRUE},
     type : ProjectTypes,
     private_key : {"absent", "existing"},
     dependencies : {None, Some(<<>>), Some(<<"dependency">>)},
     network : NetworkNames \cup {"devnet"},
     is_release : BOOLEAN,
     failing : SUBSET Range(NewerCalls)]

\* The same for the older command, which has no option for the network or
\* the release and whose manifest lists no dependencies.
OlderCommands ==
    [newer : {FALSE},
     type : ProjectTypes,
     private_key : {"absent", "existing"},
     dependencies : {None},
     network : {"localhost"},
     is_release : {FALSE},
     failing : SUBSET Range(OlderCalls)]

\* A build command is about to be executed.
BuildInit ==
    /\ command \in NewerCommands \cup OlderCommands
    /\ build = NotStarted(command)

\* No build command is executed.
BuildIdle ==
    /\ command = [newer |-> TRUE, type |-> "Circuit", private_key |-> "absent",
                  dependencies |-> None, network |-> "localhost",
                  is_release |-> FALSE, failing |-> {}]
    /\ build = NotStarted(command)

\* The newer command is executed.
StepExecute ==
    /\ command.newer /\ build.result = Pending
    /\ build' = Execute(command, build)
    /\ UNCHANGED command
    /\ BuildOnly

\* The older command is executed.
StepOlderExecute ==
    /\ ~command.newer /\ build.result = Pending
    /\ build' = OlderExecute(command, build)
    /\ UNCHANGED command
    /\ BuildOnly

----------------------------------------------------------------------------
(***************************************************************************)
(* Specifications.                                                         *)
(***************************************************************************)
\* Several threads of one process share the index.
Init == IndexInit /\ VmIdle /\ CondIdle /\ AttrIdle /\ ParserIdle /\ ArrayIdle /\ CastIdle /\ BuildIdle
Next == \E t \in Threads : IndexStep(t)
Spec == Init /\ [][Next]_vars

\* The scheduler is fair to the threads: a thread inside Index::next that can
\* take its next step takes it in the end; a thread that waits for the lock
\* gets it once the lock stays free.  No thread has to call next.
Fairness ==
    \A t \in Threads :
        /\ WF_vars(NextWrite(t))
        /\ WF_vars(NextLen(t))
        /\ WF_vars(WithIdWrite(t))
        /\ WF_vars(WithIdInsert(t))
FairSpec == Init /\ [][Next]_vars /\ Fairness

\* One thread uses the index: every call of next returns before the next one.
SeqInit == IndexInit /\ VmIdle /\ CondIdle /\ AttrIdle /\ ParserIdle /\ ArrayIdle /\ CastIdle /\ BuildIdle
SeqNext == IndexStep(1)
SeqSpec == SeqInit /\ [][SeqNext]_vars

\* A virtual machine executes a program on its evaluation stack.
VmStart == VmInit /\ IndexInit /\ CondIdle /\ AttrIdle /\ ParserIdle /\ ArrayIdle /\ CastIdle /\ BuildIdle
VmNext == StepPush \/ StepPop \/ StepRem \/ StepSlice \/ StepGt \/ StepLoadPushArray
VmSpec == VmStart /\ [][VmNext]_vars

\* A virtual machine executes bytecode with conditionals.
CondStart == CondInit /\ IndexInit /\ VmIdle /\ AttrIdle /\ ParserIdle /\ ArrayIdle /\ CastIdle /\ BuildIdle
CondNext == StepIf \/ StepElse \/ StepEndIf \/ StepOther
CondSpec == CondStart /\ [][CondNext]_vars

\* The semantic analyzer converts a syntax attribute.
AttrStart == AttrInit /\ IndexInit /\ VmIdle /\ CondIdle /\ ParserIdle /\ ArrayIdle /\ CastIdle /\ BuildIdle
AttrNext == Convert
AttrSpec == AttrStart /\ [][AttrNext]_vars

\* The `use` and the `contract` parser, each on its statements.
ParserStart == ParserInit /\ IndexInit /\ VmIdle /\ CondIdle /\ AttrIdle /\ ArrayIdle /\ CastIdle /\ BuildIdle
ParserNext ==
    \/ StepKeywordUse \/ StepPath \/ StepAsOrNext \/ StepAliasIdentifier
    \/ StepSemicolon
    \/ StepKeywordContract \/ StepIdentifier \/ StepBracketCurlyLeftOrEnd
    \/ StepFieldList \/ StepStatementOrBracketCurlyRight
ParserSpec == ParserStart /\ [][ParserNext]_vars

\* The evaluation of an array literal and of an access to it.
ArrayStart == ArrayInit /\ IndexInit /\ VmIdle /\ CondIdle /\ AttrIdle /\ ParserIdle /\ CastIdle /\ BuildIdle
ArrayNext == StepArrayPush \/ StepArrayIndex \/ StepArrayRange
ArraySpec == ArrayStart /\ [][ArrayNext]_vars

\* The construction, the encoding and the decoding of a Cast.
CastStart ==
    /\ CastInit /\ IndexInit /\ VmIdle /\ CondIdle /\ AttrIdle /\ ParserIdle
    /\ ArrayIdle /\ BuildIdle
CastNext == StepCastNew \/ StepCastEncode \/ StepCastDecode
CastSpec == CastStart /\ [][CastNext]_vars

\* A build command of the package manager is executed.
BuildStart ==
    /\ BuildInit /\ IndexInit /\ VmIdle /\ CondIdle /\ AttrIdle /\ ParserIdle
    /\ ArrayIdle /\ CastIdle
BuildNext == StepExecute \/ StepOlderExecute
BuildSpec == BuildStart /\ [][BuildNext]_vars

----------------------------------------------------------------------------
(***************************************************************************)
(* Claims.                                                                 *)
(***************************************************************************)
\* C1: no two calls of Index::next, from any threads and in any interleaving
\* of the lock acquisitions, return the same id.
C1_UniqueIds ==
    \A i, j \in 1..Len(returned) : i # j => returned[i] # returned[j]

\* The number of built-in types seeded by Index::new.
BuiltInCount == Cardinality({StdCryptoEccPoint, StdCryptoSchnorrSignature, StdAssetsToken})

\* C2: from a fresh index, sequential calls of Index::next return the
\* contiguous ids BuiltInCount, BuiltInCount + 1, ...: strictly increasing by
\* one, without duplicates, and never the id of a seeded built-in type.
C2_SequentialContiguous ==
    /\ \A i \in 1..Len(returned) : returned[i] = BuiltInCount + i - 1
    /\ \A i \in 1..Len(returned) :
           returned[i] \notin {StdCryptoEccPoint, StdCryptoSchnorrSignature, StdAssetsToken}
    /\ \A i, j \in 1..Len(returned) : i # j => returned[i] # returned[j]

\* Three sequential calls have returned.
C2_Witness == Len(returned) = 3 /\ \A t \in Threads : ipc[t] = "idle"

\* The instruction executed last, and whether the machine has executed op.
Last == program[pc - 1]
Did(op) == pc > 1 /\ Last.op = op
Finished(prog) == program = prog /\ pc = Len(prog) + 1

\* The two operands Rem found on the stack: the dividend on top, the divisor
\* under it.
Dividend == before[Len(before)]
Divisor == before[Len(before) - 1]
RemDone == Did("Rem") /\ Len(before) >= 2 /\ Divisor # 0

Sign(x) == IF x < 0 THEN -1 ELSE IF x > 0 THEN 1 ELSE 0

\* C5, as stated: for b # 0 the quotient and the remainder of div_rem, which
\* Rem pushes, satisfy a = (a/b)*b + (a%b), the quotient rounds toward zero and
\* a non-zero remainder has the sign of the dividend (truncated division).
C5_Truncated ==
    RemDone =>
        LET q == div_rem(Dividend, Divisor)[1]
            r == stack[Len(stack)]
        IN  /\ status = "ok"
            /\ Dividend = q * Divisor + r
            /\ r # 0 => Sign(r) = Sign(Dividend)
            /\ Abs(q * Divisor) <= Abs(Dividend)

\* C5, amended: for b # 0 the quotient and the remainder of div_rem, which Rem
\* pushes, satisfy a = q*b + r and 0 <= r < |b| (Euclidean division): the
\* remainder is never negative, whatever the sign of the dividend.
C5_Euclidean ==
    RemDone =>
        LET q == div_rem(Dividend, Divisor)[1]
            r == stack[Len(stack)]
        IN  /\ status = "ok"
            /\ Dividend = q * Divisor + r
            /\ 0 <= r /\ r < Abs(Divisor)

\* Rem has divided a negative dividend and pushed a positive remainder.
C5_Witness == RemDone /\ status = "ok" /\ Dividend < 0 /\ stack[Len(stack)] > 0

\* C6: Rem pops the dividend first (the top) and the divisor second, and
\* replaces the two by the remainder r alone, 0 <= r < |divisor|, r congruent
\* to the dividend modulo the divisor; test_rem leaves 1, 1, 3, 3 in the
\* order pushed.
C6_RemStack ==
    /\ RemDone =>
           /\ status = "ok"
           /\ Len(stack) = Len(before) - 1
           /\ SubSeq(stack, 1, Len(stack) - 1) = SubSeq(before, 1, Len(before) - 2)
           /\ LET r == stack[Len(stack)]
              IN  /\ 0 <= r /\ r < Abs(Divisor)
                  /\ (Dividend - r) % Abs(Divisor) = 0
    /\ Did("Rem") /\ Len(before) >= 2 /\ Divisor = 0 => status = "DivisionByZero"
    /\ Finished(TestRem) => status = "ok" /\ stack = <<1, 1, 3, 3>>

\* test_rem has run to its end.
C6_Witness == Finished(TestRem) /\ stack = <<1, 1, 3, 3>>

\* C8: Slice(len, slice_len, offset) with offset + slice_len <= len on a stack
\* of at least len values replaces the top len values, read as an array whose
\* element 0 is the deepest, by the elements offset .. offset + slice_len - 1
\* in their order; test_slice leaves [4, 3, 1] top to bottom.
C8_Slice ==
    /\ ( /\ Did("Slice")
         /\ Last.slice_offset + Last.slice_len <= Last.len
         /\ Len(before) >= Last.len )
       => LET kept == Len(before) - Last.len
              array == SubSeq(before, kept + 1, Len(before))
          IN  /\ status = "ok"
              /\ stack = SubSeq(before, 1, kept)
                         \o SubSeq(array, Last.slice_offset + 1,
                                   Last.slice_offset + Last.slice_len)
    /\ Finished(TestSlice) => status = "ok" /\ stack = <<1, 3, 4>>

\* test_slice has run to its end.
C8_Witness == Finished(TestSlice) /\ stack = <<1, 3, 4>>

\* C9: Pop(count) on a stack of at least count values removes the top count
\* values and leaves the values beneath them as they were (Pop(0) changes
\* nothing); test_pop leaves [3, 1] top to bottom.
C9_Pop ==
    /\ Did("Pop") /\ Len(before) >= Last.count
       => /\ status = "ok"
          /\ stack = SubSeq(before, 1, Len(before) - Last.count)
    /\ Did("Pop") /\ Last.count = 0 => stack = before
    /\ Finished(TestPop) => status = "ok" /\ stack = <<1, 3>>

\* test_pop has run to its end.
C9_Witness == Finished(TestPop) /\ stack = <<1, 3>>

CondFinished(prog) == cprogram = prog /\ cpc = Len(prog) + 1

\* The values a side that only loads and pushes leaves, the variables at
\* addresses 0 and 1 holding x and y.
Pushed(side, x, y) ==
    [k \in 1..Len(side) |->
        IF side[k].op = "Push" THEN side[k].value
        ELSE IF side[k].address = 0 THEN x ELSE y]

Min(a, b) == IF a < b THEN a ELSE b
Max(a, b) == IF a < b THEN b ELSE a

C4_DataMerging ==
    /\ \A x \in {0, 3}, c \in {0, 1}, A \in Updates, B \in Updates :
           cprogram = Update(x, c, A, B) =>
               /\ cvm.status = "ok"
               /\ cpc >= Len(cprogram) =>
                      /\ Depth(cvm) = 0
                      /\ cvm.data = Run(CondMachine, <<Push(x), Store(0)>>
                                            \o (IF c = 1 THEN A ELSE B)).data
    /\ \A c \in {0, 1} :
           cprogram = TestDataStack(c) =>
               /\ cvm.status = "ok"
               /\ cpc = Len(cprogram) + 1 =>
                      cvm.evaluation = <<IF c = 1 THEN 1 ELSE -1>>

\* test_data_stack has run to its end on c = 0.
C4_Witness == CondFinished(TestDataStack(0)) /\ cvm.evaluation = <<-1>>

\* The condition and the side of every frame, innermost last.
Frames(vm) == [k \in 1..Depth(vm) |-> <<vm.branches[k].cond, vm.branches[k].side>>]
Flipped(side) == IF side = "Then" THEN "Else" ELSE "Then"

\* What one step of the machine does to the branches.
C7_Step ==
    LET i == cprogram[cpc]
        d == Depth(cvm)
    IN  /\ cvm.status = "ok"
        /\ i.op = "If" /\ cvm'.status = "ok" =>
               /\ Depth(cvm') = d + 1
               /\ SubSeq(Frames(cvm'), 1, d) = Frames(cvm)
               /\ cvm'.branches[d + 1].side = "Then"
        /\ i.op = "Else" /\ d > 0 =>
               /\ cvm'.status = "ok"
               /\ Depth(cvm') = d
               /\ SubSeq(Frames(cvm'), 1, d - 1) = SubSeq(Frames(cvm), 1, d - 1)
               /\ cvm'.branches[d].side = Flipped(cvm.branches[d].side)
               /\ cvm'.branches[d].cond = cvm.branches[d].cond
        /\ i.op = "EndIf" /\ d > 0 /\ cvm'.status = "ok" =>
               /\ Depth(cvm') = d - 1
               /\ Frames(cvm') = SubSeq(Frames(cvm), 1, d - 1)
        /\ i.op \in {"Else", "EndIf"} /\ d = 0 =>
               /\ cvm'.status = "BranchMalformed"
               /\ Depth(cvm') = 0
        /\ i.op \notin {"If", "Else", "EndIf"} => Frames(cvm') = Frames(cvm)

MsgShape(list) ==
    /\ Len(list) = 4
    /\ \A k \in 1..4 :
           /\ list[k].path = MsgNames[k]
           /\ list[k].variant.kind = "Value"
           /\ list[k].variant.literal.kind = "Integer"

IsMsg == attribute.elements # <<>> /\ attribute.elements[1].path = "zksync::msg"
MsgList == attribute.elements[1].variant.nested
HasMsgShape ==
    /\ attribute.elements[1].variant.kind = "Nested"
    /\ MsgShape(MsgList)

\* C10, as stated: the conversion of a `zksync::msg` attribute succeeds if and
\* only if its nested list has the expected shape, and then every field holds
\* the value of the element of its name.
C10_MsgIff ==
    IsMsg /\ converted # Pending =>
        /\ converted.state = "ok" <=> HasMsgShape
        /\ converted.state = "ok" =>
               /\ converted.attribute.kind = "ZksyncMsg"
               /\ converted.attribute.sender = MsgList[1].variant.literal.value
               /\ converted.attribute.recipient = MsgList[2].variant.literal.value
               /\ converted.attribute.token_address = MsgList[3].variant.literal.value
               /\ converted.attribute.amount = MsgList[4].variant.literal.value
        /\ converted.state # "ok" => converted.state = "err"

\* C10, amended: the conversion of a `zksync::msg` attribute succeeds if and
\* only if its nested list has the expected shape and each of the four
\* integer literals converts to an integer constant; then every field holds
\* the value of the element of its name, and every other attribute yields an
\* error and no attribute.
C10_MsgIffConvertible ==
    IsMsg /\ converted # Pending =>
        /\ converted.state = "ok" <=>
               (HasMsgShape /\ \A k \in 1..4 : MsgList[k].variant.literal.fits)
        /\ converted.state = "ok" =>
               /\ converted.attribute.kind = "ZksyncMsg"
               /\ converted.attribute.sender = MsgList[1].variant.literal.value
               /\ converted.attribute.recipient = MsgList[2].variant.literal.value
               /\ converted.attribute.token_address = MsgList[3].variant.literal.value
               /\ converted.attribute.amount = MsgList[4].variant.literal.value
        /\ converted.state # "ok" => converted.state = "err"

\* A `zksync::msg` with sender = 1, recipient = 2, token_address = 2 and
\* amount = 1 has been converted.
C10_Witness ==
    /\ IsMsg
    /\ converted.state = "ok"
    /\ converted.attribute =
           [kind |-> "ZksyncMsg", sender |-> 1, recipient |-> 2,
            token_address |-> 2, amount |-> 1]


----------------------------------------------------------------------------
\* The statement parsers.

Returned == parser.result # Pending
Succeeded == parser.result # Pending /\ parser.result.state = "ok"
Failed == parser.result # Pending /\ parser.result.state = "err"

\* The position of the token after the path whose first identifier is at
\* position i of the stream.
RECURSIVE AfterPath(_)
AfterPath(i) == IF TokenAt(i + 1).lexeme = "::" THEN AfterPath(i + 2) ELSE i + 1

\* The token after the path of a `use` statement or, with `as`, the token
\* after the alias identifier.
AfterUse ==
    IF TokenAt(AfterPath(2)).lexeme = "as" THEN TokenAt(AfterPath(2) + 2)
    ELSE TokenAt(AfterPath(2))

\* C11: the use parser returns a statement only from the state Semicolon and
\* only if the token after the path, or after the alias identifier, is `;`;
\* any other token there, the end of the input included, gives the error
\* Expected with wanted [";"] and that token as found, at its location.
C11_Semicolon ==
    kind = "use" /\ Returned =>
        /\ parser.result.state = "ok" =>
               parser.state = "Semicolon" /\ AfterUse.lexeme = ";"
        /\ parser.state = "Semicolon" /\ AfterUse.lexeme \notin {";", "Invalid"} =>
               /\ parser.result.state = "err"
               /\ parser.result.error.kind = "Expected"
               /\ parser.result.error.wanted = <<";">>
               /\ parser.result.error.found = AfterUse.lexeme
               /\ parser.result.error.location = AfterUse.location

\* `use jabberwocky` and the end of the input (the test error_expected_semicolon).
C11_Witness ==
    /\ kind = "use" /\ input = <<"use", "id">>
    /\ Failed /\ parser.result.error.found = "Eof"

\* An error raised by a transition of the parser itself: the sub-parsers are
\* called in the states Path, FieldList and StatementOrBracketCurlyRight,
\* whose own transitions raise no error.
RaisedHere(error_kind) ==
    /\ Failed
    /\ parser.result.error.kind = error_kind
    /\ parser.state \notin {"Path", "FieldList", "StatementOrBracketCurlyRight"}

\* C12, as the claim has it: the hint of an Expected error raised by a
\* transition of the use or the contract parser is never absent.
C12_HintNeverAbsent ==
    RaisedHere("Expected") => parser.result.error.hint.some

\* C12, amended: the ExpectedIdentifier errors of the two parsers carry a
\* hint; their Expected errors (a missing `use`, `contract` or `;`) carry none.
C12_HintOfIdentifier ==
    /\ RaisedHere("ExpectedIdentifier") => parser.result.error.hint.some
    /\ RaisedHere("Expected") => ~parser.result.error.hint.some

\* `use a as ;`: the alias identifier is missing.
C12_Witness ==
    /\ kind = "use" /\ RaisedHere("ExpectedIdentifier")
    /\ parser.result.error.hint = Some(HINT_EXPECTED_ALIAS_IDENTIFIER)

\* The tokens the parser holds: `initial` and self.next.
Held ==
    (IF parser.initial.some THEN <<parser.initial.value>> ELSE <<>>)
    \o (IF parser.next.some THEN <<parser.next.value>> ELSE <<>>)

\* The lookahead token the parser returned.
Lookahead ==
    IF parser.result.next.some THEN <<parser.result.next.value>> ELSE <<>>

\* C13: in a parse that does not fail, the tokens the parser obtained are, in
\* order, the tokens it consumed and then the one it holds or, at the return,
\* the one it returns as the lookahead; it holds at most one token; and each
\* token it examines is the newest token read from the stream.
C13_Tokens ==
    ~Failed =>
        /\ Len(Held) <= 1
        /\ ~Returned => parser.obtained = parser.consumed \o Held
        /\ Succeeded => Held = <<>> /\ parser.obtained = parser.consumed \o Lookahead
        /\ \A i \in DOMAIN parser.examined :
               parser.examined[i].token.location = parser.examined[i].read

\* A `use` statement without alias was parsed: the token after the path was
\* handed back by the path parser, held, and then consumed as the `;`.
C13_Witness ==
    /\ kind = "use" /\ Succeeded
    /\ ~parser.result.statement.alias_identifier.some
    /\ Len(parser.examined) = 3
    /\ parser.examined[2].token = parser.examined[3].token

\* The lexemes the transitions of a state accept; a state that calls a
\* sub-parser or returns the token as the lookahead accepts every lexeme.
Accepts(state) ==
    CASE state = "KeywordUse" -> {"use"}
      [] state = "AliasIdentifier" -> {"id"}
      [] state = "Semicolon" -> {";"}
      [] state = "KeywordContract" -> {"contract"}
      [] state = "Identifier" -> {"id"}
      [] OTHER -> Lexemes \cup {"Eof"}

\* C14: a turn of the loop that examines a token its state does not accept,
\* or in which the stream or a sub-parser fails, returns the error at once:
\* the error is at the last token read, the result holds no statement, and
\* the builder is left as it was.
C14_Step ==
    LET p == parser
        q == parser'
    IN  /\ (/\ Len(q.examined) > Len(p.examined)
            /\ q.examined[Len(q.examined)].token.lexeme \notin Accepts(p.state)) =>
               /\ q.result # Pending /\ q.result.state = "err"
               /\ q.result.error.location = q.examined[Len(q.examined)].token.location
        /\ (q.read > p.read /\ \E i \in p.read + 1 .. q.read : TokenAt(i).lexeme = "Invalid") =>
               /\ q.result = Err(Lexical(q.read))
               /\ TokenAt(q.read).lexeme = "Invalid"
        /\ (q.result # Pending /\ q.result.state = "err") =>
               /\ q.result.error.location = q.read
               /\ DOMAIN q.result = {"state", "error"}
               /\ q.state = p.state
               /\ q.builder = p.builder
C14_FailFast == [][C14_Step]_vars

\* `contract Data { a: u8 )`: the statement parser fails at `)` (the test
\* error_expected_bracket_curly_right).
C14_Witness ==
    /\ kind = "contract" /\ Failed
    /\ input = <<"contract", "id", "{", "id", ":", "u8", ")">>
    /\ parser.result.error.wanted = <<"const", "fn">>
    /\ parser.read = 7

\* The order of the states of the contract parser.
Rank(state) ==
    CASE state = "KeywordContract" -> 1
      [] state = "Identifier" -> 2
      [] state = "BracketCurlyLeftOrEnd" -> 3
      [] state = "FieldList" -> 4
      [] state = "StatementOrBracketCurlyRight" -> 5

\* C15: a turn of the loop of the contract parser moves to the next state of
\* the order or, in StatementOrBracketCurlyRight only, stays; the parser
\* returns a statement only from BracketCurlyLeftOrEnd on a token that is not
\* `{`, or from StatementOrBracketCurlyRight on `}`.
C15_Step ==
    LET p == parser
        q == parser'
    IN  kind = "contract" /\ q # p =>
            /\ q.state # p.state => Rank(q.state) = Rank(p.state) + 1
            /\ q.state = p.state /\ q.result = Pending =>
                   p.state = "StatementOrBracketCurlyRight"
            /\ (q.result # Pending /\ q.result.state = "ok") =>
                   \/ /\ p.state = "BracketCurlyLeftOrEnd"
                      /\ TokenAt(q.read).lexeme # "{"
                   \/ /\ p.state = "StatementOrBracketCurlyRight"
                      /\ TokenAt(q.read).lexeme = "}"
C15_StateOrder == [][C15_Step]_vars

\* The parser is in StatementOrBracketCurlyRight again after a statement.
C15_Witness ==
    /\ kind = "contract" /\ ~Returned
    /\ parser.state = "StatementOrBracketCurlyRight"
    /\ Len(parser.builder.statements) = 2

\* C16: after `contract` and an identifier, a token that is not `{` ends the
\* parse with a statement without fields and statements and with that token
\* as the lookahead; a parse of a contract with a body ends on `}` and
\* returns no lookahead.
C16_Lookahead ==
    kind = "contract" /\ Returned =>
        /\ (/\ TokenAt(1).lexeme = "contract" /\ TokenAt(2).lexeme = "id"
            /\ TokenAt(3).lexeme \notin {"{", "Invalid"}) =>
               parser.result =
                   Parsed(ContractStatement(1, Identifier(2), <<>>, <<>>), Some(TokenAt(3)))
        /\ (Succeeded /\ TokenAt(3).lexeme = "{") =>
               /\ parser.result.next = None
               /\ TokenAt(parser.read).lexeme = "}"
               /\ parser.consumed[Len(parser.consumed)] = TokenAt(parser.read)

\* `contract Test;` (the test ok_empty_with_semicolon)
C16_Witness ==
    /\ kind = "contract" /\ input = <<"contract", "id", ";">>
    /\ Succeeded /\ parser.result.next = Some(Token(";", 3))

\* C17: a token after `contract` that is not an identifier gives
\* ExpectedIdentifier at that token, with the token as found and the hint
\* HINT_EXPECTED_IDENTIFIER; a first token that is not `contract` gives
\* Expected with wanted ["contract"] at that token.
C17_Errors ==
    kind = "contract" /\ Returned =>
        /\ TokenAt(1).lexeme \notin {"contract", "Invalid"} =>
               /\ Failed
               /\ parser.result.error.kind = "Expected"
               /\ parser.result.error.wanted = <<"contract">>
               /\ parser.result.error.found = TokenAt(1).lexeme
               /\ parser.result.error.location = 1
        /\ (TokenAt(1).lexeme = "contract" /\ TokenAt(2).lexeme \notin {"id", "Invalid"}) =>
               parser.result =
                   Err(ExpectedIdentifier(2, TokenAt(2).lexeme,
                                          Some(HINT_EXPECTED_IDENTIFIER)))

\* `contract { a: u8 }` (the test error_expected_identifier)
C17_Witness ==
    /\ kind = "contract" /\ Failed
    /\ TokenAt(1).lexeme = "contract" /\ TokenAt(2).lexeme = "{"
    /\ parser.result.error.kind = "ExpectedIdentifier"


----------------------------------------------------------------------------
\* The constant arrays.

\* The array literal was evaluated and accessed: a result is there.
Accessed(op) == arrayAccess.op = op /\ arrayResult # Pending

\* C18: the constant index i on an array of n elements gives the element at
\* the place i, counted from zero, exactly when 0 <= i < n; every other
\* index, i = n included, gives IndexOutOfRange with the index and the size n.
C18_Index ==
    Accessed("index") =>
        LET i == arrayAccess.index
            n == Len(arrayLiteral)
        IN  IF 0 <= i /\ i < n
            THEN arrayResult = Done(arrayLiteral[i + 1].value)
            ELSE arrayResult = Err(IndexOutOfRange(i, n))

\* `[1, 2, 3, 4, 5][5]` (the test error_index_out_of_range)
C18_Witness ==
    /\ Len(arrayLiteral) = 5 /\ arrayAccess = IndexAccess(5)
    /\ arrayResult = Err(IndexOutOfRange(5, 5))

\* C19: the constant range l .. r on an array of n elements gives
\* SliceStartOutOfRange when l < 0, else SliceEndOutOfRange with the end and
\* the size when r > n, else SliceEndLesserThanStart with the start and the
\* end when r < l, and else the elements at the places l to r - 1.
C19_Range ==
    Accessed("range") =>
        LET l == arrayAccess.start
            r == arrayAccess.end
            n == Len(arrayLiteral)
        IN  /\ l < 0 => arrayResult = Err(SliceStartOutOfRange(l))
            /\ l >= 0 /\ r > n => arrayResult = Err(SliceEndOutOfRange(r, n))
            /\ l >= 0 /\ r <= n /\ r < l => arrayResult = Err(SliceEndLesserThanStart(l, r))
            /\ 0 <= l /\ l <= r /\ r <= n =>
                   /\ arrayResult.state = "ok"
                   /\ arrayResult.value.values = [k \in 1 .. r - l |-> arrayLiteral[l + k].value]

\* `[1, 2, 3, 4, 5][1 .. 3]` is `[2, 3]`.
C19_Witness ==
    /\ Len(arrayLiteral) = 5 /\ arrayAccess = RangeAccess(1, 3)
    /\ arrayResult # Pending /\ arrayResult.state = "ok"
    /\ arrayResult.value.values = <<2, 3>>

\* The places of the elements of the literal whose type is not the type of
\* the first element.
Offending == {k \in 1 .. Len(arrayLiteral) : arrayLiteral[k].type # arrayLiteral[1].type}

\* C20: a literal with an element whose type is not the element type of the
\* array is rejected at the first such element, with PushingInvalidType, the
\* element type as expected and the type of that element as found; a literal
\* without such an element is accepted.
C20_Push ==
    arrayAccess = NoAccess /\ arrayResult # Pending =>
        IF Offending = {}
        THEN arrayResult.state = "ok" /\ Len(arrayResult.value.values) = Len(arrayLiteral)
        ELSE LET k == CHOOSE k \in Offending : \A j \in Offending : k <= j
             IN  /\ arrayResult = Err(At(arrayLiteral[k].location,
                                     PushingInvalidType(arrayLiteral[1].type, arrayLiteral[k].type)))
                 /\ Len(arrayConstant.values) = k - 1

\* `[1, false]` (the test error_pushing_invalid_type)
C20_Witness ==
    /\ Len(arrayLiteral) = 2 /\ arrayLiteral[1].type = "u8" /\ arrayLiteral[2].type = "bool"
    /\ arrayResult = Err(At(2, PushingInvalidType("u8", "bool")))


----------------------------------------------------------------------------
\* The Cast instruction.

\* C21: the Cast instruction holds the signedness and the bit width it was
\* constructed with, its encoding holds both after the instruction code, and
\* the decoding of the encoding is a Cast that holds the same two.
C21_CastOperands ==
    LET operands == <<cast.signed, cast.length>>
    IN  /\ cast.instruction.some => cast.instruction.value.operands = operands
        /\ cast.bytes.some => cast.bytes.value = <<InstructionCodeCast>> \o operands
        /\ cast.decoded # Pending =>
               /\ cast.decoded.state = "ok"
               /\ cast.decoded.instruction.operands = operands

----------------------------------------------------------------------------
\* The instructions Gt, Slice, Pop and LoadPushArray.

\* C22: Gt on a stack with x on top and y beneath it replaces the two by 1 if
\* x > y and by 0 otherwise; test_gt leaves [0, 0, 1] top to bottom.
C22_Gt ==
    /\ Did("Gt") /\ Len(before) >= 2
       => LET x == before[Len(before)]
              y == before[Len(before) - 1]
          IN  /\ status = "ok"
              /\ stack = Append(SubSeq(before, 1, Len(before) - 2),
                                IF x > y THEN 1 ELSE 0)
    /\ Finished(TestGt) => status = "ok" /\ stack = <<1, 0, 0>>

\* test_gt has run to its end.
C22_Witness == Finished(TestGt) /\ stack = <<1, 0, 0>>

\* C23: Slice(len, slice_len, offset) with slice_len + offset > len stops the
\* machine with IndexOutOfBounds and leaves the evaluation stack as it was.
C23_SliceOutOfBounds ==
    Did("Slice") /\ Last.slice_len + Last.slice_offset > Last.len
        => status = "IndexOutOfBounds" /\ stack = before

\* Slice(1, 1, 1) on a stack of two values.
C23_Witness ==
    /\ Did("Slice") /\ Last = Slice(1, 1, 1)
    /\ Len(before) = 2 /\ status = "IndexOutOfBounds"

\* C24: a Slice(len, slice_len, offset) that succeeds leaves the values
\* beneath the top len values as they were, makes the evaluation stack
\* len - slice_len values shorter, and leaves the data stack as it was.
C24_Step ==
    Executes("Slice") /\ status' = "ok" =>
        LET kept == Len(stack) - program[pc].len
        IN  /\ kept >= 0
            /\ SubSeq(stack', 1, kept) = SubSeq(stack, 1, kept)
            /\ Len(stack') = Len(stack) - (program[pc].len - program[pc].slice_len)
            /\ data' = data
C24_SliceFrame == [][C24_Step]_vars

\* Slice(2, 1, 1) succeeded on a stack of four values and a data stack that
\* holds values.
C24_Witness ==
    /\ Did("Slice") /\ Last = Slice(2, 1, 1) /\ status = "ok"
    /\ Len(before) = 4 /\ Len(stack) = 3 /\ data = SomeData

\* C25: Pop(count) on a stack of fewer than count values stops the machine
\* with StackUnderflow, and a stopped machine executes nothing more.
C25_Step ==
    /\ status = "ok"
    /\ Executes("Pop") /\ Len(stack) < program[pc].count => status' = "StackUnderflow"
C25_PopUnderflow == [][C25_Step]_vars

\* A Pop has failed and the instruction after it is not executed.
C25_Witness ==
    /\ Did("Pop") /\ status = "StackUnderflow"
    /\ pc <= Len(program) /\ program[pc].op = "Push"

\* C26: a LoadPushArray(address, len) whose addresses all hold a value pushes
\* the values at address + len - 1 down to address, in this order, on top of
\* the evaluation stack and leaves the data stack as it was; with len = 0 it
\* changes nothing.
C26_Step ==
    Executes("LoadPushArray") /\ ~UNCHANGED vars =>
        LET address == program[pc].address
            len == program[pc].len
        IN  /\ (\A a \in address .. address + len - 1 : a \in DOMAIN data) =>
                   /\ status' = "ok"
                   /\ stack' = stack \o [k \in 1 .. len |-> data[address + len - k]]
                   /\ data' = data
            /\ len = 0 => status' = "ok" /\ stack' = stack /\ data' = data
C26_LoadPushArray == [][C26_Step]_vars

\* LoadPushArray(0, 3) has pushed three values: the one at the address 0 is
\* on top and the one at the address 2 is the deepest of the three.
C26_Witness ==
    /\ Did("LoadPushArray") /\ Last = LoadPushArray(0, 3) /\ status = "ok"
    /\ Len(stack) = Len(before) + 3
    /\ stack[Len(stack)] = data[0] /\ stack[Len(before) + 1] = data[2]
    /\ data[0] # data[2]

----------------------------------------------------------------------------
\* The errors of the attribute conversion.

\* The first element is a `zksync::msg` with a nested list.
IsNestedMsg == IsMsg /\ attribute.elements[1].variant.kind = "Nested"

\* What the element at position k of the nested list deviates in, as the
\* error reported for it: its name first, then a value that is no integer
\* literal, then an integer literal that converts to no constant; Pending for
\* an element that does not deviate.
Deviation(k) ==
    LET element == MsgList[k]
    IN  IF element.path # MsgNames[k]
        THEN Err([kind |-> "AttributeExpectedElement", name |-> "zksync::msg",
                  position |-> k, expected |-> MsgNames[k], found |-> element.path])
        ELSE IF ~(element.variant.kind = "Value" /\ element.variant.literal.kind = "Integer")
        THEN Err([kind |-> "AttributeExpectedIntegerLiteral", name |-> MsgNames[k]])
        ELSE IF ~element.variant.literal.fits THEN Err([kind |-> "InvalidInteger"])
        ELSE Pending

\* C27: for a `zksync::msg` with a nested list, a list of another length
\* than four is reported as AttributeElementsCount whatever its elements are;
\* for a list of four, the error is the one of the lowest position that
\* deviates, and a wrong name there is reported rather than its value.
C27_MsgErrors ==
    IsNestedMsg /\ converted # Pending =>
        IF Len(MsgList) # 4
        THEN converted = Err([kind |-> "AttributeElementsCount", name |-> "zksync::msg",
                              expected |-> 4, found |-> Len(MsgList)])
        ELSE LET deviating == {k \in 1..4 : Deviation(k) # Pending}
             IN  /\ deviating = {} <=> converted.state = "ok"
                 /\ deviating # {} =>
                        LET lowest == CHOOSE k \in deviating : \A j \in deviating : k <= j
                        IN  converted = Deviation(lowest)

\* The second element has a wrong name and no integer value, the third one a
\* wrong name: the wrong name at the position 2 is reported.
C27_Witness ==
    /\ IsNestedMsg /\ Len(MsgList) = 4
    /\ Deviation(1) = Pending
    /\ MsgList[2].path = "fee" /\ MsgList[2].variant = NoVariant
    /\ MsgList[3].path # MsgNames[3]
    /\ converted = Err([kind |-> "AttributeExpectedElement", name |-> "zksync::msg",
                        position |-> 2, expected |-> "recipient", found |-> "fee"])

\* C28: an attribute without elements is AttributeEmpty; otherwise the path
\* of the first element decides: test, should_panic and ignore give Test,
\* ShouldPanic and Ignore whatever the element carries and whatever follows
\* it, a path that is none of these nor `zksync::msg` is AttributeUnknown with
\* the path found, and no element after the first changes the result.
C28_FirstElement ==
    converted # Pending =>
        IF attribute.elements = <<>> THEN converted = Err([kind |-> "AttributeEmpty"])
        ELSE LET path == attribute.elements[1].path
             IN  /\ path = "test" => converted = Ok([kind |-> "Test"])
                 /\ path = "should_panic" => converted = Ok([kind |-> "ShouldPanic"])
                 /\ path = "ignore" => converted = Ok([kind |-> "Ignore"])
                 /\ path \notin {"test", "should_panic", "ignore", "zksync::msg"} =>
                        converted = Err([kind |-> "AttributeUnknown", found |-> path])
                 /\ converted = try_from([elements |-> <<attribute.elements[1]>>])

\* `ignore` with a nested list, followed by a `zksync::msg`, is Ignore.
C28_Witness ==
    /\ Len(attribute.elements) = 2
    /\ attribute.elements[1] = Element("ignore", Nested(WellFormed))
    /\ attribute.elements[2].path = "zksync::msg"
    /\ converted = Ok([kind |-> "Ignore"])

----------------------------------------------------------------------------
\* The alias and the states of the use parser.

\* The token right after the path of a `use` statement, and the one after it.
AfterUsePath == TokenAt(AfterPath(2))
AfterAs == TokenAt(AfterPath(2) + 1)

\* C29: a use statement that was parsed has an alias identifier if and only
\* if the token after the path is `as` and the next one an identifier, which
\* then is the alias; `as` before a token that is no identifier fails with
\* ExpectedIdentifier carrying the alias hint; and the lookahead returned with
\* a statement is None.
C29_Alias ==
    kind = "use" /\ Returned =>
        /\ Succeeded =>
               /\ parser.result.statement.alias_identifier.some
                      <=> AfterUsePath.lexeme = "as" /\ AfterAs.lexeme = "id"
               /\ parser.result.statement.alias_identifier.some =>
                      parser.result.statement.alias_identifier.value
                          = Identifier(AfterAs.location)
               /\ parser.result.next = None
        /\ parser.state = "AliasIdentifier" =>
               /\ AfterUsePath.lexeme = "as"
               /\ AfterAs.lexeme \notin {"id", "Invalid"} =>
                      parser.result =
                          Err(ExpectedIdentifier(AfterAs.location, AfterAs.lexeme,
                                                 Some(HINT_EXPECTED_ALIAS_IDENTIFIER)))

\* `use a::b as c;` was parsed (the test ok_with_alias).
C29_Witness ==
    /\ kind = "use" /\ input = <<"use", "id", "::", "id", "as", "id", ";">>
    /\ Succeeded
    /\ parser.result.statement.alias_identifier = Some(Identifier(6))
    /\ parser.result.next = None

\* The transitions of the use parser.
UseTransitions ==
    {<<"KeywordUse", "Path">>, <<"Path", "AsOrNext">>, <<"AsOrNext", "AliasIdentifier">>,
     <<"AsOrNext", "Semicolon">>, <<"AliasIdentifier", "Semicolon">>}

\* C30: a turn of the loop of the use parser either moves along one of the
\* transitions KeywordUse -> Path -> AsOrNext -> [AliasIdentifier ->]
\* Semicolon or returns a statement or an error; AliasIdentifier is entered
\* on `as` only.  No state is entered twice, so that at most five turns are
\* taken.
C30_Step ==
    LET p == parser
        q == parser'
    IN  kind = "use" /\ q # p =>
            /\ p.result = Pending
            /\ q.state # p.state =>
                   /\ <<p.state, q.state>> \in UseTransitions
                   /\ q.result = Pending
            /\ q.state = p.state => q.result # Pending
            /\ q.state = "AliasIdentifier" /\ p.state # "AliasIdentifier" =>
                   TokenAt(q.read).lexeme = "as"
            /\ q.result # Pending /\ q.result.state = "ok" => p.state = "Semicolon"
C30_UseStates == [][C30_Step]_vars

\* `use a as b;` was parsed through all the five states.
C30_Witness ==
    /\ kind = "use" /\ input = <<"use", "id", "as", "id", ";">>
    /\ Succeeded /\ parser.state = "Semicolon"
    /\ parser.result.statement.alias_identifier.some

----------------------------------------------------------------------------
\* The body of a contract.

\* The fields of the field list that starts at the position i of the input,
\* in the order of the source, and the position of the token after the list.
RECURSIVE FieldsFrom(_)
FieldsFrom(i) ==
    IF TokenAt(i).lexeme # "id" THEN <<>>
    ELSE <<[location |-> i, identifier |-> Identifier(i)]>>
         \o (IF TokenAt(i + 3).lexeme = "," THEN FieldsFrom(i + 4) ELSE <<>>)
RECURSIVE AfterFields(_)
AfterFields(i) ==
    IF TokenAt(i).lexeme # "id" THEN i
    ELSE IF TokenAt(i + 3).lexeme = "," THEN AfterFields(i + 4) ELSE i + 3

\* The statements that start at the position i of the input, in the order of
\* the source.
RECURSIVE StatementsFrom(_)
StatementsFrom(i) ==
    IF TokenAt(i).lexeme = "const"
    THEN <<[kind |-> "const", location |-> i]>> \o StatementsFrom(i + 1 + Len(ConstStatement))
    ELSE IF TokenAt(i).lexeme = "fn"
    THEN <<[kind |-> "fn", location |-> i]>> \o StatementsFrom(i + 1 + Len(FnStatement))
    ELSE <<>>

\* C31: a contract parsed with a body has the fields of the one field list
\* after `{` and, after them, the statements of the body, both in the order
\* of the source and each statement once; a turn of the loop after a
\* statement adds this one statement and examines the token the statement
\* parser handed back, or the next token of the stream if it handed none back.
C31_Step ==
    LET p == parser
        q == parser'
        turn == /\ kind = "contract" /\ q # p
                /\ p.state = "StatementOrBracketCurlyRight"
        examined == q.examined[Len(q.examined)].token
    IN  /\ turn /\ Len(q.examined) > Len(p.examined) =>
               /\ Len(q.examined) = Len(p.examined) + 1
               /\ examined = (IF p.next.some THEN p.next.value ELSE TokenAt(p.read + 1))
        /\ turn /\ q.result = Pending =>
               /\ Len(q.builder.statements) = Len(p.builder.statements) + 1
               /\ SubSeq(q.builder.statements, 1, Len(p.builder.statements))
                      = p.builder.statements
               /\ q.builder.fields = p.builder.fields
        /\ (turn /\ q.result # Pending /\ q.result.state = "ok") =>
               /\ q.result.statement.fields = FieldsFrom(4)
               /\ q.result.statement.statements = StatementsFrom(AfterFields(4))
               /\ q.result.statement.statements = p.builder.statements
C31_Body == [][C31_Step]_vars

\* Two fields and two statements of a contract are parsed, and the statement
\* parser has handed back the `}` after the second statement.
C31_Witness ==
    /\ kind = "contract" /\ ~Returned
    /\ parser.state = "StatementOrBracketCurlyRight"
    /\ parser.builder.fields = FieldsFrom(4) /\ Len(parser.builder.fields) = 2
    /\ parser.builder.statements
           = <<[kind |-> "const", location |-> 12], [kind |-> "fn", location |-> 19]>>
    /\ parser.next = Some(Token("}", 25))

----------------------------------------------------------------------------
\* The lock of the index.

----------------------------------------------------------------------------
\* The build commands.

\* The command has returned.
BuildReturned == build.result # Pending
\* The call was made.
Ran(callee) == \E i \in DOMAIN build.ran : build.ran[i] = callee
\* The calls of the compiler.
Compilers == {"Compiler::build_release", "Compiler::build_debug", "Compiler::build"}
\* The calls a command makes before it calls the compiler, whatever its
\* options are.
Before(cmd) ==
    IF cmd.newer
    THEN {"Manifest::try_from", "TargetDirectory::create",
          "TargetDependenciesDirectory::create", "DataDirectory::create"}
         \cup (IF cmd.dependencies.some THEN {"Downloader::download_list"} ELSE {})
    ELSE {"Manifest::try_from", "SourceDirectory::files", "BuildDirectory::create",
          "DataDirectory::create"}

\* C33: the build command writes the private key file only for a contract
\* without a private key file, then the default one; a private key file that
\* exists is left as it is, and no file is written for another project type.
C33_PrivateKey ==
    BuildReturned =>
        /\ Ran("PrivateKeyFile::write_to") =>
               command.type = "Contract" /\ command.private_key = "absent"
        /\ build.private_key # command.private_key =>
               /\ Ran("PrivateKeyFile::write_to")
               /\ build.private_key = "default"
        /\ command.private_key = "existing" => build.private_key = "existing"
        /\ command.type # "Contract" => build.private_key = command.private_key

\* The default private key was written for a contract that had none.
C33_Witness ==
    /\ command.newer /\ command.type = "Contract" /\ command.private_key = "absent"
    /\ build.result = Built /\ build.private_key = "default"

\* C34: the compiler is called last and only after the calls before it were
\* made and succeeded; a call that fails is the last call made and its error
\* is the result; a command that succeeds has called the compiler, and the
\* newer command has called build_release if is_release and build_debug
\* otherwise, once, and not the other one.
C34_CompilerLast ==
    BuildReturned =>
        /\ \A i \in DOMAIN build.ran :
               /\ build.ran[i] \in Compilers =>
                      /\ i = Len(build.ran)
                      /\ \A callee \in Before(command) : Ran(callee)
               /\ build.ran[i] \in command.failing =>
                      /\ i = Len(build.ran)
                      /\ build.result = Err([kind |-> build.ran[i]])
               /\ i < Len(build.ran) => build.ran[i] \notin command.failing
        /\ build.result = Built =>
               /\ build.ran # <<>>
               /\ build.ran[Len(build.ran)] \in Compilers
               /\ Cardinality({i \in DOMAIN build.ran : build.ran[i] \in Compilers}) = 1
               /\ command.newer =>
                      build.ran[Len(build.ran)] =
                          (IF command.is_release THEN "Compiler::build_release"
                           ELSE "Compiler::build_debug")
        /\ build.result # Built =>
               \/ build.ran[Len(build.ran)] \in command.failing
               \/ build.result.error.kind \in {"NetworkInvalid", "NetworkUnimplemented"}

\* The download of the dependencies failed and the compiler was not called.
C34_Witness ==
    /\ command.newer /\ command.dependencies = Some(<<"dependency">>)
    /\ build.result = Err([kind |-> "Downloader::download_list"])
    /\ build.ran[Len(build.ran)] = "Downloader::download_list"
    /\ ~\E callee \in Compilers : Ran(callee)
    /\ "Compiler::build_debug" \notin command.failing

\* C35: the newer command reads the network name only if the manifest has
\* dependencies: without them the result is the one of the same command with
\* the default network name; with them, a name that is no network, or a
\* network without URL, ends the command with NetworkInvalid, or
\* NetworkUnimplemented, once the calls before succeeded, and neither the
\* download nor the compiler is called.
C35_Network ==
    command.newer /\ BuildReturned =>
        /\ ~command.dependencies.some =>
               /\ ~Ran("Network::from_str") /\ ~Ran("Network::try_into_url")
               /\ build = Execute([command EXCEPT !.network = "localhost"],
                                  NotStarted(command))
        /\ command.dependencies.some /\ command.network \notin NetworkUrls =>
               /\ build.result # Built
               /\ ~Ran("Downloader::download_list")
               /\ ~\E callee \in Compilers : Ran(callee)
               /\ Ran("Network::from_str") <=>
                      build.ran[Len(build.ran)] \notin command.failing
               /\ Ran("Network::from_str") =>
                      build.result =
                          Err([kind |-> IF command.network \in NetworkNames
                                        THEN "NetworkUnimplemented" ELSE "NetworkInvalid",
                               name |-> command.network])

\* A manifest without dependencies is built with a name that is no network.
C35_Witness ==
    /\ command.newer /\ command.dependencies = None
    /\ command.network \notin NetworkNames
    /\ build.result = Built

====
